---- MODULE Spec2Model ----
(***************************************************************************)
(* Mac Sync Wizard (iconfig.py): the sync lock, the sync pipeline, the     *)
(* backup/restore engine and the configuration store.                      *)
(*                                                                         *)
(* A file tree is a function from paths (sequences of names, relative to   *)
(* the root of the tree) to nodes: Dir for a directory, a positive number  *)
(* for the content of a regular file.  The root itself always exists.      *)
(* Three trees are kept: home (rooted at HOME_DIR), backups (rooted at     *)
(* REPO_DIR/backups) and one tree per restore_backups/<utility>_<stamp>.   *)
(***************************************************************************)
EXTENDS Integers, Sequences, FiniteSets, TLC

\* ---------------------------------------------------------------- bounds
NumProcs == 2        \* processes that may call sync_once concurrently
MaxTime == 2         \* the clock (seconds) runs from 1 to MaxTime
MaxEdits == 1        \* user edits of the home tree or the configuration file
MaxRestores == 2     \* restore_utility calls in one behaviour

\* ------------------------------------------------------------ file trees
Dir == 0
EmptyFS == [q \in {} |-> Dir]

Front(s) == SubSeq(s, 1, Len(s) - 1)
Last(s) == s[Len(s)]
IsPrefix(p, q) == Len(p) <= Len(q) /\ SubSeq(q, 1, Len(p)) = p
Prefixes(p) == {SubSeq(p, 1, n) : n \in 1..Len(p)}

\* os.path.exists / os.path.isdir / os.path.isfile on a tree
exists(fs, p) == p = <<>> \/ p \in DOMAIN fs
isdir(fs, p) == p = <<>> \/ (p \in DOMAIN fs /\ fs[p] = Dir)
isfile(fs, p) == p \in DOMAIN fs /\ fs[p] # Dir

\* the paths strictly below p, relative to p
Below(fs, p) ==
    {SubSeq(q, Len(p) + 1, Len(q)) : q \in {r \in DOMAIN fs : IsPrefix(p, r) /\ r # p}}

\* os.listdir
listdir(fs, p) == {r[1] : r \in Below(fs, p)}

\* os.makedirs(p, exist_ok=True): ok is FALSE when a component is a file
makedirs(fs, p) ==
    LET ok == \A q \in Prefixes(p) : q \in DOMAIN fs => fs[q] = Dir
    IN  [ok |-> ok,
         fs |-> IF ok
                THEN [q \in DOMAIN fs \cup Prefixes(p) |->
                         IF q \in DOMAIN fs THEN fs[q] ELSE Dir]
                ELSE fs]

\* shutil.rmtree(p): raises on a regular file or a missing path
rmtree(fs, p) ==
    LET ok == p # <<>> /\ isdir(fs, p)
    IN  [ok |-> ok,
         fs |-> IF ok
                THEN [q \in {r \in DOMAIN fs : ~IsPrefix(p, r)} |-> fs[q]]
                ELSE fs]

\* shutil.copytree(src, dst): dst must not exist; missing parents are made.
\* keep is the set of relative paths that are copied (all of them for
\* shutil, the ones no --exclude pattern matches for rsync).
copytree_some(sfs, sp, dfs, dp, keep) ==
    LET ok == dp # <<>> /\ ~exists(dfs, dp) /\ makedirs(dfs, dp).ok
        new == {dp \o r : r \in keep}
        withdirs == makedirs(dfs, dp).fs
    IN  [ok |-> ok,
         fs |-> IF ok
                THEN [q \in DOMAIN withdirs \cup new |->
                         IF q \in new
                         THEN sfs[sp \o SubSeq(q, Len(dp) + 1, Len(q))]
                         ELSE withdirs[q]]
                ELSE dfs]

copytree(sfs, sp, dfs, dp) == copytree_some(sfs, sp, dfs, dp, Below(sfs, sp))

\* shutil.copy2(src, dst): into dst/<basename of src> when dst is a
\* directory, onto dst otherwise; raises when the parent is missing or the
\* target is a directory.
copy2_target(sp, dfs, dp) == IF isdir(dfs, dp) THEN dp \o <<Last(sp)>> ELSE dp

copy2(sfs, sp, dfs, dp) ==
    LET target == copy2_target(sp, dfs, dp)
        ok == target # <<>> /\ isdir(dfs, Front(target)) /\ ~isdir(dfs, target)
    IN  [ok |-> ok,
         fs |-> IF ok
                THEN [q \in DOMAIN dfs \cup {target} |->
                         IF q = target THEN sfs[sp] ELSE dfs[q]]
                ELSE dfs]

\* ----------------------------------------------------- configured paths
\* A configured path "~/a/b" or "~/a/b/" is its components after
\* os.path.expanduser, relative to HOME_DIR, and whether it ends in "/".
Path(comps, slash) == [comps |-> comps, slash |-> slash]

\* os.path.exists and os.path.isdir of an expanded path: "x/" exists only
\* when x is a directory
path_exists(fs, path) ==
    exists(fs, path.comps) /\ (path.slash => isdir(fs, path.comps))
path_isdir(fs, path) == isdir(fs, path.comps)

\* os.path.basename: empty for a path that ends in "/"
basename(path) == IF path.slash THEN <<>> ELSE <<Last(path.comps)>>
\* os.path.dirname: the path itself, without the "/", when it ends in "/"
dirname(path) == IF path.slash THEN path.comps ELSE Front(path.comps)

\* os.listdir gives the items in an unspecified order; the order only
\* matters when a copy raises, which needs a name that is a file in one
\* tree and a directory in the other.  Items are taken in NameOrder.
NameOrder == <<"d", "e", "f", "g", "p.ttf", "q.ttf", "Fonts">>

\* ------------------------------------------------------ patterns
\* A glob pattern (exclude_patterns, include_patterns) or a font family
\* name (custom_fonts) is modelled by the set of file names it matches.
Matches(patterns, name) == \E pat \in patterns : name \in pat
SeqRange(s) == {s[i] : i \in 1..Len(s)}

\* ------------------------------------------------------ backup_utility
\* env.rsync: command_exists("rsync"); env.rsync_ok: rsync's exit code is 0.
\* A failing rsync is taken to have created dest_dir and transferred nothing.
LogEntry(op, utility_name, path, dry_run) ==
    [op |-> op, utility |-> utility_name, src |-> path, dry_run |-> dry_run]

\* one iteration of the loop over source_paths (lines 1005-1052)
backup_one_path(utility_name, path, exclude_patterns, dry_run, env, home, acc) ==
    LET backup_path == <<utility_name>>
        dest_dir == backup_path \o basename(path)
        copied(fs, op) ==
            [acc EXCEPT !.fs = fs, !.files_copied = @ + 1,
                        !.log = Append(@, LogEntry(op, utility_name, path, dry_run))]
        failed(fs) == [acc EXCEPT !.fs = fs, !.success = FALSE]
    IN
    IF ~path_exists(home, path) THEN acc
    ELSE IF path_isdir(home, path) THEN
        IF dry_run THEN copied(acc.fs, "copy_dir")
        ELSE
            LET rm == IF path_exists(acc.fs, Path(dest_dir, path.slash))
                      THEN rmtree(acc.fs, dest_dir)
                      ELSE [ok |-> TRUE, fs |-> acc.fs]
            IN  IF ~rm.ok THEN failed(acc.fs)
                ELSE IF env.rsync /\ exclude_patterns # {} THEN
                    LET keep == IF env.rsync_ok
                                THEN {r \in Below(home, path.comps) :
                                        \A i \in 1..Len(r) : ~Matches(exclude_patterns, r[i])}
                                ELSE {}
                        cp == copytree_some(home, path.comps, rm.fs, dest_dir, keep)
                        done == copied(cp.fs, "copy_dir")
                    IN  [done EXCEPT !.success = @ /\ env.rsync_ok /\ cp.ok]
                ELSE
                    LET cp == copytree(home, path.comps, rm.fs, dest_dir)
                    IN  IF cp.ok THEN copied(cp.fs, "copy_dir") ELSE failed(rm.fs)
    ELSE
        IF dry_run THEN copied(acc.fs, "copy_file")
        ELSE LET cp == copy2(home, path.comps, acc.fs, backup_path)
             IN  IF cp.ok THEN copied(cp.fs, "copy_file") ELSE failed(acc.fs)

RECURSIVE backup_loop(_, _, _, _, _, _, _)
backup_loop(utility_name, source_paths, exclude_patterns, dry_run, env, home, acc) ==
    IF source_paths = <<>> THEN acc
    ELSE backup_loop(utility_name, Tail(source_paths), exclude_patterns, dry_run, env, home,
                     backup_one_path(utility_name, Head(source_paths), exclude_patterns,
                                     dry_run, env, home, acc))

\* a backup that creates backups/<utility> in a dry run too
backup_utility_mkdir_always(utility_name, source_paths, exclude_patterns, dry_run, env, home, backups) ==
    LET mk == makedirs(backups, <<utility_name>>)
        acc0 == [raised |-> FALSE, success |-> TRUE, files_copied |-> 0,
                 log |-> <<>>, fs |-> mk.fs]
    IN  IF ~mk.ok THEN [acc0 EXCEPT !.raised = TRUE, !.success = FALSE]
        ELSE backup_loop(utility_name, source_paths, exclude_patterns, dry_run, env, home, acc0)

\* backup_utility: raised is TRUE when os.makedirs(backup_path) raises,
\* which is outside the try block
backup_utility(utility_name, source_paths, exclude_patterns, dry_run, env, home, backups) ==
    LET mk == IF dry_run THEN [ok |-> TRUE, fs |-> backups]
              ELSE makedirs(backups, <<utility_name>>)
        acc0 == [raised |-> FALSE, success |-> TRUE, files_copied |-> 0,
                 log |-> <<>>, fs |-> mk.fs]
    IN  IF ~mk.ok THEN [acc0 EXCEPT !.raised = TRUE, !.success = FALSE]
        ELSE backup_loop(utility_name, source_paths, exclude_patterns, dry_run, env, home, acc0)

\* --------------------------------------------------------- backup_fonts
FontsDir == <<"Fonts">>      \* ~/Library/Fonts/

\* get_font_files_for_family: the regular files of the fonts directory the
\* family name matches
get_font_files_for_family(family, home) ==
    {n \in listdir(home, FontsDir) : n \in family /\ isfile(home, FontsDir \o <<n>>)}

\* the names one selection policy goes through, in the order of its loops:
\* pattern by pattern (family by family), the matching names of each in
\* NameOrder; a name that two patterns match comes twice
RECURSIVE matched(_, _)
matched(pats, names) ==
    IF pats = <<>> THEN <<>>
    ELSE SelectSeq(NameOrder, LAMBDA n : n \in names /\ n \in Head(pats))
         \o matched(Tail(pats), names)

\* backup_fonts.  glob.glob also returns directories: the dry run logs
\* them like files, and in a real run shutil.copy2 raises on the first of
\* them, which ends the whole loop (the try block of line 907 is around it).
backup_fonts(custom_fonts, include_patterns, exclude_patterns, dry_run, home, backups) ==
    LET backup_path == <<"fonts">>
        mk == IF dry_run THEN [ok |-> TRUE, fs |-> backups]
              ELSE makedirs(backups, backup_path)
        all == listdir(home, FontsDir)
        files == {n \in all : isfile(home, FontsDir \o <<n>>)}
        order ==
            IF custom_fonts # <<>> THEN matched(custom_fonts, files)
            ELSE IF include_patterns # <<>> THEN matched(include_patterns, all)
            ELSE SelectSeq(NameOrder, LAMBDA n : n \in files /\ ~Matches(exclude_patterns, n))
        bad == {i \in 1..Len(order) : order[i] \notin files}
        raised_at == IF bad = {} THEN Len(order) + 1
                     ELSE CHOOSE i \in bad : \A j \in bad : i <= j
        done == IF dry_run THEN order ELSE SubSeq(order, 1, raised_at - 1)
        good == SeqRange(done)
        newfs == [q \in DOMAIN mk.fs \cup {backup_path \o <<n>> : n \in good} |->
                    IF \E n \in good : q = backup_path \o <<n>>
                    THEN home[FontsDir \o <<Last(q)>>]
                    ELSE mk.fs[q]]
        log == [i \in 1..Len(done) |->
                  LogEntry("copy_file", "fonts", Path(FontsDir \o <<done[i]>>, FALSE), dry_run)]
    IN
    IF ~mk.ok
    THEN [raised |-> TRUE, success |-> FALSE, files_copied |-> 0, log |-> <<>>, fs |-> backups]
    ELSE IF ~isdir(home, FontsDir)
    THEN [raised |-> FALSE, success |-> FALSE, files_copied |-> 0, log |-> <<>>, fs |-> mk.fs]
    ELSE [raised |-> FALSE, success |-> dry_run \/ bad = {}, files_copied |-> Len(done),
          log |-> log,
          fs |-> IF dry_run THEN mk.fs ELSE newfs]

\* ------------------------------------------- create_backup_before_restore
\* restore_backups maps <<utility, timestamp>> (the directory
\* restore_backups/<utility>_<timestamp>) to the tree below it.  Two calls
\* within the same second use the same directory.
\* One iteration of the loop (lines 1069-1080); acc.ok turns FALSE when a
\* call raises, and the rest of the loop is then skipped.
safety_one_path(path, home, acc) ==
    LET rel_path == path.comps          \* os.path.relpath drops a trailing "/"
        mk == makedirs(acc.fs, Front(rel_path))
        cp == IF path_isdir(home, path)
              THEN copytree(home, path.comps, mk.fs, rel_path)
              ELSE copy2(home, path.comps, mk.fs, rel_path)
    IN  IF ~acc.ok \/ ~path_exists(home, path) THEN acc
        ELSE IF ~mk.ok THEN [acc EXCEPT !.ok = FALSE]
        ELSE [ok |-> cp.ok, fs |-> cp.fs]

RECURSIVE safety_loop(_, _, _)
safety_loop(dest_paths, home, acc) ==
    IF dest_paths = <<>> THEN acc
    ELSE safety_loop(Tail(dest_paths), home, safety_one_path(Head(dest_paths), home, acc))

\* returns ok = FALSE for None, and the directory otherwise
create_backup_before_restore(utility_name, dest_paths, timestamp, home, restore_backups) ==
    LET backup_dir == <<utility_name, timestamp>>
        tree0 == IF backup_dir \in DOMAIN restore_backups
                 THEN restore_backups[backup_dir] ELSE EmptyFS
        res == safety_loop(dest_paths, home, [ok |-> TRUE, fs |-> tree0])
    IN  [ok |-> res.ok,
         backup_dir |-> backup_dir,
         restore_backups |->
            [k \in DOMAIN restore_backups \cup {backup_dir} |->
                IF k = backup_dir THEN res.fs ELSE restore_backups[k]]]

\* -------------------------------------------------------- restore_utility

\* one item of the backup directory copied into base_dir (lines 1118-1129);
\* acc.ok turns FALSE when a call raises
restore_one_item(item, backup_path, base_dir, backups, acc) ==
    LET item_path == backup_path \o <<item>>
        dest_item_path == base_dir \o <<item>>
        rm == IF exists(acc.home, dest_item_path)
              THEN rmtree(acc.home, dest_item_path)
              ELSE [ok |-> TRUE, fs |-> acc.home]
        ct == copytree(backups, item_path, rm.fs, dest_item_path)
        cf == copy2(backups, item_path, acc.home, base_dir)
    IN  IF ~acc.ok THEN acc
        ELSE IF isdir(backups, item_path) THEN
            IF ~rm.ok THEN [acc EXCEPT !.ok = FALSE]
            ELSE [acc EXCEPT !.ok = ct.ok, !.home = ct.fs,
                             !.files_restored = IF ct.ok THEN @ + 1 ELSE @,
                             !.written = @ \cup {q \in DOMAIN acc.home : IsPrefix(dest_item_path, q)}
                                           \cup (IF ct.ok THEN {dest_item_path \o r : r \in Below(backups, item_path)}
                                                             \cup {dest_item_path}
                                                 ELSE {})]
        ELSE
            IF ~cf.ok THEN [acc EXCEPT !.ok = FALSE]
            ELSE [acc EXCEPT !.home = cf.fs, !.files_restored = @ + 1,
                             !.written = @ \cup {dest_item_path}]

RECURSIVE restore_items(_, _, _, _, _)
restore_items(items, backup_path, base_dir, backups, acc) ==
    IF items = <<>> THEN acc
    ELSE restore_items(Tail(items), backup_path, base_dir, backups,
                       restore_one_item(Head(items), backup_path, base_dir, backups, acc))

\* one iteration of the loop over dest_paths (lines 1106-1139).  The
\* os.makedirs(base_dir) is outside the try block: when it raises, the
\* exception leaves restore_utility (acc.raised).
restore_one_path(path, backup_path, backups, acc) ==
    LET base_dir == dirname(path)
        mk == makedirs(acc.home, base_dir)
        start == [acc EXCEPT !.home = mk.fs, !.ok = TRUE]
        items == SelectSeq(NameOrder, LAMBDA n : n \in listdir(backups, backup_path))
        viadir == restore_items(items, backup_path, base_dir, backups, start)
        cf == copy2(backups, backup_path, mk.fs, path.comps)
        viafile == IF cf.ok
                   THEN [start EXCEPT !.home = cf.fs, !.files_restored = @ + 1,
                                      !.written = @ \cup {copy2_target(backup_path, mk.fs, path.comps)}]
                   ELSE [start EXCEPT !.ok = FALSE]
        res == IF isdir(backups, backup_path) THEN viadir ELSE viafile
    IN  IF acc.raised THEN acc
        ELSE IF ~mk.ok THEN [acc EXCEPT !.raised = TRUE, !.success = FALSE]
        ELSE [res EXCEPT !.success = acc.success /\ res.ok]

RECURSIVE restore_loop(_, _, _, _)
restore_loop(dest_paths, backup_path, backups, acc) ==
    IF dest_paths = <<>> THEN acc
    ELSE restore_loop(Tail(dest_paths), backup_path, backups,
                      restore_one_path(Head(dest_paths), backup_path, backups, acc))

\* restore_utility.  found: a backup exists (otherwise it returns False
\* before doing anything); safety_ok/backup_dir: what
\* create_backup_before_restore returned; written: the paths of the home
\* tree that were written, replaced or removed.
restore_utility(utility_name, dest_paths, timestamp, home, backups, restore_backups) ==
    LET backup_path == <<utility_name>>
        safety == create_backup_before_restore(utility_name, dest_paths, timestamp,
                                               home, restore_backups)
        acc0 == [ok |-> TRUE, raised |-> FALSE, success |-> TRUE, files_restored |-> 0,
                 home |-> home, written |-> {}]
        res == restore_loop(dest_paths, backup_path, backups, acc0)
    IN  IF ~exists(backups, backup_path)
        THEN [found |-> FALSE, raised |-> FALSE, success |-> FALSE, files_restored |-> 0,
              home |-> home, written |-> {}, safety_ok |-> FALSE,
              backup_dir |-> safety.backup_dir, restore_backups |-> restore_backups]
        ELSE [found |-> TRUE, raised |-> res.raised, success |-> res.success,
              files_restored |-> res.files_restored,
              home |-> res.home, written |-> res.written, safety_ok |-> safety.ok,
              backup_dir |-> safety.backup_dir, restore_backups |-> safety.restore_backups]

\* --------------------------------------------------------------- git
\* The repository: committed is the backups tree as of HEAD, index the tree
\* as staged, stash the stashed file sets (newest first), in_progress the
\* operation a conflict left unfinished ("none", "rebase" or "merge"),
\* pushed the tree as of origin/<branch>.  Only this machine pushes, so a
\* pull brings no content.
Op(op, arg, ok) == [op |-> op, arg |-> arg, ok |-> ok]
Cmd(arg, ok) == Op("git", arg, ok)

\* git tracks regular files only
FilesOf(tree) == [q \in {r \in DOMAIN tree : tree[r] # Dir} |-> tree[q]]

\* `git status --porcelain` prints nothing when the working tree, the index
\* and HEAD hold the same files; a file that was never added is listed too
Dirty(tree, repo) ==
    \/ FilesOf(tree) # FilesOf(repo.index)
    \/ FilesOf(repo.index) # FilesOf(repo.committed)

\* the paths git tracks, and the tracked files of a working tree
Tracked(repo) == DOMAIN FilesOf(repo.index) \cup DOMAIN FilesOf(repo.committed)
TrackedFiles(tree, repo) ==
    [q \in DOMAIN FilesOf(tree) \cap Tracked(repo) |-> tree[q]]

\* the working tree once git has made its tracked files the given files:
\* untracked files and empty directories stay, a directory that lost its
\* last file goes
Checkout(files, tree, repo) ==
    LET untracked == DOMAIN FilesOf(tree) \ Tracked(repo)
        kept == DOMAIN files \cup untracked
        empty == {d \in DOMAIN tree :
                    tree[d] = Dir /\ \A q \in DOMAIN FilesOf(tree) : ~IsPrefix(d, q)}
        dirs == (UNION {Prefixes(Front(q)) : q \in kept}) \cup empty
    IN  [q \in (dirs \ kept) \cup kept |->
            IF q \in DOMAIN files THEN files[q]
            ELSE IF q \in untracked THEN tree[q]
            ELSE Dir]

\* git stash push: saves the staged and the unstaged changes of tracked
\* files; with none of them ("No local changes to save") it exits 0 and
\* makes no entry
stash_push(tree, repo) ==
    LET saved == \/ FilesOf(repo.index) # FilesOf(repo.committed)
                 \/ TrackedFiles(tree, repo) # FilesOf(repo.index)
    IN  [saved |-> saved,
         backups |-> IF saved THEN Checkout(FilesOf(repo.committed), tree, repo) ELSE tree,
         git |-> IF saved
                 THEN [repo EXCEPT !.stash = <<TrackedFiles(tree, repo)>> \o @,
                                   !.index = repo.committed]
                 ELSE repo]

\* git stash pop: applies the newest entry, whoever made it, and drops it;
\* it fails with no entry, or when a file the entry adds is in the way
stash_pop(ok, tree, repo) ==
    LET entry == Head(repo.stash)
        head == FilesOf(repo.committed)
        done == /\ ok
                /\ repo.stash # <<>>
                /\ \A q \in DOMAIN entry \ DOMAIN head : q \notin DOMAIN tree
        added == [q \in DOMAIN head \cup DOMAIN entry |->
                    IF q \in DOMAIN head THEN head[q] ELSE entry[q]]
    IN  [ok |-> done,
         backups |-> IF done THEN Checkout(entry, tree, [repo EXCEPT !.index = added])
                     ELSE tree,
         git |-> IF done THEN [repo EXCEPT !.stash = Tail(@), !.index = added] ELSE repo]

\* What the environment may do to one pull_changes call.  A pull that ends
\* in "conflict" stops with the word conflict on stderr, one that ends in
\* "quiet_conflict" stops without it (git writes its CONFLICT lines to
\* stdout; the hint on stderr depends on the version and the advice.*
\* settings), one that ends in "error" fails before it changes anything.
\* pull_rebase is pull.rebase of the user's git configuration, which makes
\* a plain `git pull` rebase.
PullOutcomes == {"ok", "conflict", "quiet_conflict", "error"}
PullEnvs == [status_ok : BOOLEAN, stash_ok : BOOLEAN, fetch_ok : BOOLEAN,
             pull : PullOutcomes, pull_rebase : BOOLEAN,
             merge : {"ok", "stopped", "error"},
             pop_ok : BOOLEAN]
PullFaults(e) ==
    (IF e.status_ok THEN {} ELSE {"status"}) \cup (IF e.stash_ok THEN {} ELSE {"stash"})
    \cup (IF e.fetch_ok THEN {} ELSE {"fetch"}) \cup (IF e.pull = "ok" THEN {} ELSE {"pull"})
    \cup (IF e.pull_rebase THEN {"pull.rebase"} ELSE {})
    \cup (IF e.merge = "ok" THEN {} ELSE {"merge"}) \cup (IF e.pop_ok THEN {} ELSE {"pop"})

\* pull_changes(branch, use_rebase): lines 1213-1306
pull_changes(use_rebase, e, backups, git) ==
    LET dirty == Dirty(backups, git)
        \* what `git pull` without --rebase does
        plain_pull == IF e.pull_rebase THEN "rebase" ELSE "merge"
        stashing == e.status_ok /\ dirty
        c1 == <<Cmd("status", e.status_ok)>>
        \* git stash push -m "Auto-stash before pull"
        c2 == IF stashing THEN Append(c1, Cmd("stash push", e.stash_ok)) ELSE c1
        stashed == stashing /\ e.stash_ok
        pushed == stash_push(backups, git)
        tree1 == IF stashed THEN pushed.backups ELSE backups
        git1 == IF stashed THEN pushed.git ELSE git
        c3 == Append(c2, Cmd("fetch origin", e.fetch_ok))
        pullcmd == IF use_rebase THEN "pull --rebase" ELSE "pull"
        c4 == Append(c3, Cmd(pullcmd, e.pull = "ok"))
        stopped == e.pull \in {"conflict", "quiet_conflict"}
        git2 == IF stopped
                THEN [git1 EXCEPT !.in_progress = IF use_rebase THEN "rebase"
                                                   ELSE plain_pull]
                ELSE git1
        \* git rebase --abort only ends a rebase; its result is not looked at
        git3 == [git2 EXCEPT !.in_progress = IF @ = "rebase" THEN "none" ELSE @]
        fallback_ok == e.merge = "ok" /\ git3.in_progress = "none"
        c5 == Append(Append(c4, Cmd("rebase --abort", git2.in_progress = "rebase")),
                     Cmd("pull", fallback_ok))
        git4 == IF e.merge = "stopped" /\ git3.in_progress = "none"
                THEN [git3 EXCEPT !.in_progress = plain_pull]
                ELSE git3
        \* the state and the commands when the pull step is over
        retried == e.pull = "conflict"
        pulled_ok == e.pull = "ok" \/ (retried /\ fallback_ok)
        c6 == IF retried THEN c5 ELSE c4
        git6 == IF retried THEN git4 ELSE git2
        \* git stash pop
        popped == stash_pop(e.pop_ok, tree1, git6)
        c7 == IF stashed THEN Append(c6, Cmd("stash pop", popped.ok)) ELSE c6
        git7 == IF stashed THEN popped.git ELSE git6
        tree7 == IF stashed THEN popped.backups ELSE tree1
    IN  IF stashing /\ ~e.stash_ok
        THEN [ret |-> FALSE, cmds |-> c2, backups |-> backups, git |-> git]
        ELSE IF ~e.fetch_ok
        THEN [ret |-> FALSE, cmds |-> c3, backups |-> tree1, git |-> git1]
        ELSE IF ~pulled_ok
        THEN [ret |-> FALSE, cmds |-> c6, backups |-> tree1, git |-> git6]
        ELSE [ret |-> TRUE, cmds |-> c7, backups |-> tree7, git |-> git7]

\* commit_changes(message): lines 1148-1180
CommitEnvs == [add_ok : BOOLEAN, status_ok : BOOLEAN, commit_ok : BOOLEAN]
CommitFaults(e) ==
    (IF e.add_ok THEN {} ELSE {"add"}) \cup (IF e.status_ok THEN {} ELSE {"status"})
    \cup (IF e.commit_ok THEN {} ELSE {"commit"})

\* a commit that is made although nothing is staged
commit_changes_always(tree, repo) == TRUE

\* line 1166: the output of `git status --porcelain` is not empty
commit_changes_needed(tree, repo) == Dirty(tree, repo)

commit_changes(e, backups, git) ==
    LET c1 == <<Cmd("add .", e.add_ok)>>
        c2 == Append(c1, Cmd("status", e.status_ok))
        c3 == Append(c2, Cmd("commit", e.commit_ok))
        \* git add . stages every file of the working tree
        added == [git EXCEPT !.index = backups]
    IN  IF ~e.add_ok THEN [ret |-> FALSE, cmds |-> c1, git |-> git]
        ELSE IF ~e.status_ok THEN [ret |-> FALSE, cmds |-> c2, git |-> added]
        ELSE IF ~commit_changes_needed(backups, added)
        THEN [ret |-> TRUE, cmds |-> c2, git |-> added]
        ELSE IF ~e.commit_ok THEN [ret |-> FALSE, cmds |-> c3, git |-> added]
        ELSE [ret |-> TRUE, cmds |-> c3, git |-> [added EXCEPT !.committed = added.index]]

\* a push that takes the local commit back when it fails
push_changes_rollback(push_ok, git) ==
    [ret |-> push_ok,
     cmds |-> IF push_ok THEN <<Cmd("push origin", TRUE)>>
              ELSE <<Cmd("push origin", FALSE), Cmd("reset --hard origin", TRUE)>>,
     git |-> IF push_ok THEN [git EXCEPT !.pushed = git.committed]
             ELSE [git EXCEPT !.committed = git.pushed, !.index = git.pushed]]

\* push_changes(branch): lines 1182-1211
push_changes(push_ok, git) ==
    [ret |-> push_ok, cmds |-> <<Cmd("push origin", push_ok)>>,
     git |-> IF push_ok THEN [git EXCEPT !.pushed = git.committed] ELSE git]

\* ------------------------------------------------------ preflight checks
\* perform_preflight_checks: the five checks in the order of the list
CheckNames == <<"Git installation", "Disk space", "Network connectivity",
                "Git credentials", "Git LFS">>
PreflightEnvs == [git : BOOLEAN, disk : BOOLEAN, network : BOOLEAN,
                  ssh_key : BOOLEAN, lfs : BOOLEAN]
PreflightFaults(e) ==
    (IF e.git THEN {} ELSE {"no_git"}) \cup (IF e.disk THEN {} ELSE {"no_disk"})
    \cup (IF e.network THEN {} ELSE {"no_network"}) \cup (IF e.ssh_key THEN {} ELSE {"no_ssh_key"})
    \cup (IF e.lfs THEN {} ELSE {"no_lfs"})

\* check_git_credentials: only a git@ URL needs an SSH key
check_git_credentials(repo_url, e) ==
    IF repo_url = "" THEN TRUE
    ELSE IF repo_url = "git@" THEN e.ssh_key
    ELSE TRUE

\* checks that stop at the first failure
perform_preflight_checks_short(config, e) ==
    LET results == <<e.git, e.disk, e.network,
                     check_git_credentials(config.repository.url, e), e.lfs>>
        failed == {i \in 1..Len(results) : ~results[i]}
        last == IF failed = {} THEN Len(results)
                ELSE CHOOSE i \in failed : \A j \in failed : i <= j
    IN  [all_passed |-> failed = {},
         ops |-> [i \in 1..last |-> Op("check", CheckNames[i], results[i])]]

perform_preflight_checks(config, e) ==
    LET results == <<e.git, e.disk, e.network,
                     check_git_credentials(config.repository.url, e), e.lfs>>
    IN  [all_passed |-> \A i \in 1..Len(results) : results[i],
         ops |-> [i \in 1..Len(CheckNames) |-> Op("check", CheckNames[i], results[i])]]

\* get_enabled_utilities: the enabled utilities in the order of the file
get_enabled_utilities(config) == SelectSeq(config.utilities, LAMBDA u : u.enabled)

\* str.format on commit_message_template raises KeyError for a placeholder
\* other than {date} and {changes}; the template is the set of its
\* placeholders
format_ok(commit_message_template) == commit_message_template \subseteq {"date", "changes"}

\* ---------------------------------------------------------- configuration
\* A JSON object is a tree like a file tree: a function from key paths to
\* Obj (a nested object) or to a positive number (any other JSON value).
Obj == Dir

KeysOf(t) == {p[1] : p \in DOMAIN t}

\* the object below key k of t, and the tree that has value v (with the
\* members sub when v is an object) at key k
Branch(t, k) ==
    [r \in {Tail(p) : p \in {q \in DOMAIN t : q[1] = k /\ Len(q) > 1}} |-> t[<<k>> \o r]]
Graft(k, v, sub) ==
    [p \in {<<k>>} \cup {<<k>> \o r : r \in DOMAIN sub} |->
        IF p = <<k>> THEN v ELSE sub[Tail(p)]]
Item(t, k) == Graft(k, t[<<k>>], Branch(t, k))

\* DEFAULT_CONFIG, cut down to two sections: sync with two settings and
\* utilities with one utility
DEFAULT_CONFIG ==
    (<<"sync">> :> Obj) @@ (<<"sync", "frequency">> :> 21600) @@
    (<<"sync", "auto_commit">> :> 1) @@
    (<<"utilities">> :> Obj) @@ (<<"utilities", "git">> :> Obj) @@
    (<<"utilities", "git", "enabled">> :> 1)

\* a merge that does not descend into nested objects (dict.update)
shallow_update(d, u) ==
    LET item == [k \in KeysOf(d) \cup KeysOf(u) |->
                    IF k \in KeysOf(u) THEN Item(u, k) ELSE Item(d, k)]
    IN  [p \in UNION {DOMAIN item[k] : k \in DOMAIN item} |-> item[p[1]][p]]

\* deep_update(d, u): the value d has after the call
RECURSIVE deep_update(_, _)
deep_update(d, u) ==
    LET item == [k \in KeysOf(d) \cup KeysOf(u) |->
                    IF k \notin KeysOf(u) THEN Item(d, k)
                    ELSE IF u[<<k>>] = Obj /\ k \in KeysOf(d) /\ d[<<k>>] = Obj
                    THEN Graft(k, Obj, deep_update(Branch(d, k), Branch(u, k)))
                    ELSE Item(u, k)]
    IN  [p \in UNION {DOMAIN item[k] : k \in DOMAIN item} |-> item[p[1]][p]]

\* CONFIG_PATH: missing, not readable as a JSON object, or a JSON object
ConfigFile(kind, tree) == [kind |-> kind, tree |-> tree]
MissingFile == ConfigFile("missing", EmptyFS)
InvalidFile == ConfigFile("invalid", EmptyFS)

\* create_default_config: write_ok is FALSE when os.makedirs or open raises
create_default_config(defaults, write_ok) ==
    [raised |-> ~write_ok,
     config |-> defaults,
     file |-> IF write_ok THEN ConfigFile("object", defaults) ELSE MissingFile]

\* load_config.  DEFAULT_CONFIG.copy() is a shallow copy, so deep_update
\* changes the nested objects of DEFAULT_CONFIG itself: defaults is
\* DEFAULT_CONFIG as the process has it before the call, and the result
\* gives it as it is after the call.
load_config(file, defaults, write_ok) ==
    LET merged_config == deep_update(defaults, file.tree)
        shared(k) == /\ k \in KeysOf(file.tree)
                     /\ file.tree[<<k>>] = Obj
                     /\ defaults[<<k>>] = Obj
        item == [k \in KeysOf(defaults) |->
                    IF shared(k) THEN Item(merged_config, k) ELSE Item(defaults, k)]
        after == [p \in UNION {DOMAIN item[k] : k \in DOMAIN item} |-> item[p[1]][p]]
        created == create_default_config(defaults, write_ok)
    IN  IF file.kind = "object"
        THEN [config |-> merged_config, defaults |-> after, file |-> file]
        ELSE IF file.kind = "missing"
        THEN [config |-> defaults, defaults |-> defaults, file |-> created.file]
        ELSE [config |-> defaults, defaults |-> defaults, file |-> file]

\* ------------------------------------------------------ branch resolution
\* A string is the sequence of its pieces; `needle in text` is Python's
\* substring test.  The output of a git command is the set of its lines (no
\* needle below holds a line break).
Contains(text, needle) ==
    \E i \in 0..(Len(text) - Len(needle)) : SubSeq(text, i + 1, i + Len(needle)) = needle
InOutput(needle, lines) == \E l \in lines : Contains(l, needle)

\* The branches of REPO_DIR: HEAD names the branch current, born is FALSE
\* while that branch has no commit (git rev-parse --abbrev-ref HEAD then
\* fails), locals are the local branches, remotes the branches of origin as
\* of the last fetch, upstream the local branches that track origin/<name>.

\* git checkout <branch>, git checkout -b <branch>, and git checkout -b
\* <branch> origin/<branch> or git checkout -t origin/<branch>; ok is FALSE
\* when the command fails for a reason the branches do not show
git_checkout(how, branch, repo, ok) ==
    LET guess == branch \notin repo.locals /\ branch \in repo.remotes
        can == IF how = "checkout" THEN branch \in repo.locals \/ guess
               ELSE IF how = "checkout -b" THEN branch \notin repo.locals
               ELSE guess
        tracks == how # "checkout -b" /\ guess
        done == [current |-> branch,
                 born |-> repo.born \/ how # "checkout -b",
                 locals |-> IF repo.born \/ how # "checkout -b"
                            THEN repo.locals \cup {branch} ELSE repo.locals,
                 remotes |-> repo.remotes,
                 upstream |-> IF tracks THEN repo.upstream \cup {branch} ELSE repo.upstream]
    IN  [cmd |-> Cmd(how, ok /\ can), repo |-> IF ok /\ can THEN done ELSE repo]

\* git branch --set-upstream-to=origin/<branch> <branch>; its result is
\* never looked at
set_upstream(branch, repo) ==
    LET can == branch \in repo.locals /\ branch \in repo.remotes
    IN  [cmd |-> Cmd("set-upstream-to", can),
         repo |-> IF can THEN [repo EXCEPT !.upstream = @ \cup {branch}] ELSE repo]

BranchEnvs == [branch_r_ok : BOOLEAN, checkout_ok : BOOLEAN, retry_ok : BOOLEAN]

\* the branch resolution of create_new_repo (lines 707-751) and of
\* connect_existing_repo (lines 782-827): the action chosen, the commands
\* issued, the branches afterwards and whether the function goes on (ok)
resolve_branch(fn, branch, repo, e) ==
    LET create == fn = "create_new_repo"
        \* git branch -r and git branch --list <branch> print one line a
        \* branch; git rev-parse --abbrev-ref HEAD prints the current branch
        remote_branches == IF e.branch_r_ok
                           THEN {<<"  ", "origin/">> \o r : r \in repo.remotes}
                           ELSE {}
        local_stdout == {<<"  ">> \o l : l \in repo.locals \cap {branch}}
        current_branch_name == IF repo.born THEN repo.current ELSE <<>>
        remote_branch_exists == InOutput(<<"origin/">> \o branch, remote_branches)
        local_branch_exists == InOutput(branch, local_stdout)
        up == set_upstream(branch, repo)
        loc == git_checkout("checkout", branch, repo, e.checkout_ok)
        locup == set_upstream(branch, loc.repo)
        rem == git_checkout(IF create THEN "checkout -b origin/" ELSE "checkout -t",
                            branch, repo, e.checkout_ok)
        retry == git_checkout("checkout", branch, repo, e.retry_ok)
        retryup == set_upstream(branch, retry.repo)
        new == git_checkout("checkout -b", branch, repo, e.checkout_ok)
    IN  IF current_branch_name = branch
        THEN IF create /\ ~remote_branch_exists
             THEN [action |-> "on branch", ok |-> TRUE, cmds |-> <<>>, repo |-> repo]
             ELSE [action |-> "on branch", ok |-> TRUE, cmds |-> <<up.cmd>>, repo |-> up.repo]
        ELSE IF local_branch_exists
        THEN IF ~loc.cmd.ok
             THEN [action |-> "local", ok |-> FALSE, cmds |-> <<loc.cmd>>, repo |-> repo]
             ELSE IF remote_branch_exists
             THEN [action |-> "local", ok |-> TRUE, cmds |-> <<loc.cmd, locup.cmd>>,
                   repo |-> locup.repo]
             ELSE [action |-> "local", ok |-> TRUE, cmds |-> <<loc.cmd>>, repo |-> loc.repo]
        ELSE IF remote_branch_exists
        THEN IF rem.cmd.ok
             THEN [action |-> "remote", ok |-> TRUE, cmds |-> <<rem.cmd>>, repo |-> rem.repo]
             ELSE IF ~create
             THEN [action |-> "remote", ok |-> FALSE, cmds |-> <<rem.cmd>>, repo |-> repo]
             ELSE IF ~retry.cmd.ok
             THEN [action |-> "remote", ok |-> FALSE, cmds |-> <<rem.cmd, retry.cmd>>,
                   repo |-> repo]
             ELSE [action |-> "remote", ok |-> TRUE,
                   cmds |-> <<rem.cmd, retry.cmd, retryup.cmd>>, repo |-> retryup.repo]
        ELSE [action |-> "new", ok |-> new.cmd.ok, cmds |-> <<new.cmd>>, repo |-> new.repo]

\* What the environment may do to one create_new_repo call: ok fields are
\* FALSE when the command or the file operation fails; br is the
\* environment of the branch resolution.
CreateEnvs == [init_ok : BOOLEAN, remote_add_ok : BOOLEAN, fetch_ok : BOOLEAN,
               write_ok : BOOLEAN, add_ok : BOOLEAN, commit_ok : BOOLEAN,
               push_ok : BOOLEAN, br : BranchEnvs]

\* create_new_repo(url, branch) in a REPO_DIR without .git, as
\* init_repository calls it (lines 574-577 and 586).  initial is the branch
\* git init starts on (init.defaultBranch), origin the branches the remote
\* has.  made are the directories and the file of lines 684-689, remote_set
\* says that origin is the URL (setup_git_lfs_for_fonts only adds
\* .gitattributes and its result is not looked at).
create_new_repo(branch, initial, origin, e) ==
    LET c1 == <<Cmd("init", e.init_ok)>>
        c2 == c1 \o <<Cmd("remote remove origin", FALSE), Cmd("remote add origin", e.remote_add_ok)>>
        c3 == Append(c2, Cmd("fetch origin", e.fetch_ok))
        c4 == Append(c3, Cmd("add .", e.add_ok))
        c5 == Append(c4, Cmd("commit", e.commit_ok))
        made == {"backups", "config", "logs", "README.md"}
        empty == [current |-> initial, born |-> FALSE, locals |-> {}, remotes |-> {},
                  upstream |-> {}]
        fetched == [empty EXCEPT !.remotes = IF e.fetch_ok THEN origin ELSE {}]
        committed == IF e.commit_ok
                     THEN [fetched EXCEPT !.born = TRUE, !.locals = {initial}]
                     ELSE fetched
        res == resolve_branch("create_new_repo", branch, committed, e.br)
        c6 == c5 \o res.cmds
        \* git push --set-upstream origin <branch>: refused when the branch
        \* has no commit or the remote branch holds commits it has not
        can_push == /\ res.repo.born
                    /\ branch \in origin => (branch \in res.repo.remotes /\ res.action = "remote")
        pushed == e.push_ok /\ can_push
        c7 == Append(c6, Cmd("push --set-upstream", pushed))
        after == IF pushed
                 THEN [res.repo EXCEPT !.remotes = @ \cup {branch}, !.upstream = @ \cup {branch}]
                 ELSE res.repo
        out(ret, cmds, repo, files, remote_set) ==
            [ret |-> ret, cmds |-> cmds, repo |-> repo, made |-> files,
             remote_set |-> remote_set, action |-> "none", seen |-> {}]
    IN  IF ~e.init_ok THEN out(FALSE, c1, empty, {}, FALSE)
        ELSE IF ~e.remote_add_ok THEN out(FALSE, c2, empty, {}, FALSE)
        ELSE IF ~e.write_ok THEN out(FALSE, c3, fetched, {}, TRUE)
        ELSE IF ~e.add_ok THEN out(FALSE, c4, fetched, made, TRUE)
        ELSE IF ~res.ok
        THEN [out(FALSE, c6, res.repo, made, TRUE) EXCEPT
                 !.action = res.action, !.seen = committed.remotes]
        ELSE [out(TRUE, c7, after, made, TRUE) EXCEPT
                 !.action = res.action, !.seen = committed.remotes]

\* ================================================================ state
VARIABLES
    config,           \* the configuration the command runs with
    home,             \* the tree below HOME_DIR (without ~/.mac-sync-wizard)
    faulty,           \* the faults the environment of this behaviour may show
    lock,             \* LOCK_FILE exists
    now,              \* the clock, in seconds
    last_sync,        \* LAST_SYNC_FILE: <<>> when missing, <<t>> otherwise
    backups,          \* the tree below REPO_DIR/backups
    git,              \* the repository in REPO_DIR
    restore_backups,  \* the trees below APP_DIR/restore_backups
    pc,               \* where each sync invocation is
    dry_run,          \* --dry-run of each sync invocation
    created,          \* create_lock_file of the invocation wrote the lock file
    ret,              \* what perform_sync is about to return or raise
    idx,              \* position in the list of enabled utilities
    backup_failures,  \* perform_sync's backup_failures
    trace,            \* what the invocation did, in order
    result,           \* what sync_once returned: "True", "False" or "raised"
    saw_lock,         \* is_syncing() of the invocation returned True
    backed_up,        \* the home tree and the paths of the last backup_utility
    restored,         \* what the last restore_utility did
    edits,            \* user edits (home tree, configuration file) so far
    restores,         \* restore_utility calls so far
    config_file,      \* CONFIG_PATH: the JSON object in the file, or Missing
    defaults,         \* DEFAULT_CONFIG as it is in the memory of the process
    loaded,           \* what the last load_config returned
    setup             \* what the setup did: the branches of REPO_DIR, the wizard's run

syncvars == <<lock, last_sync, backups, git, pc, dry_run, created, ret, idx,
              backup_failures, trace, result, saw_lock>>
fsvars == <<home, now, restore_backups, backed_up, restored, edits, restores>>
cfgvars == <<config_file, defaults, loaded>>
nonsync == <<config, faulty, setup, fsvars, cfgvars>>
vars == <<config, faulty, setup, fsvars, cfgvars, syncvars>>

Procs == 1..NumProcs

\* ------------------------------------------------------------ sync_once
AllFaults == {"lock_create", "no_git", "no_disk", "no_network", "no_ssh_key", "no_lfs",
              "status", "stash", "fetch", "pull", "pull.rebase", "merge", "pop",
              "rsync", "mkdir", "add", "commit", "push", "last_sync_write"}

\* a lock check that never sees the marker
is_syncing_blind == FALSE

is_syncing == lock

\* create_lock_file: ok is FALSE when open() raises
create_lock_file(ok) == lock \/ ok

\* a release that leaves the marker where it is
remove_lock_file_kept == lock

\* remove_lock_file: removes the file when it exists
remove_lock_file == FALSE

Goto(p, label) == pc' = [pc EXCEPT ![p] = label]
Did(p, ops) == trace' = [trace EXCEPT ![p] = @ \o ops]
Returning(p, value) == ret' = [ret EXCEPT ![p] = value]

\* sync_once, lines 1360-1362: the is_syncing() check
SyncOnce(p) ==
    /\ pc[p] = "idle"
    /\ saw_lock' = [saw_lock EXCEPT ![p] = is_syncing]
    /\ IF is_syncing
       THEN /\ Goto(p, "done")
            /\ result' = [result EXCEPT ![p] = "False"]
       ELSE /\ Goto(p, "create_lock")
            /\ UNCHANGED result
    /\ UNCHANGED <<lock, last_sync, backups, git, dry_run, created, ret, idx,
                   backup_failures, trace>>
    /\ UNCHANGED nonsync

\* sync_once, line 1364: create_lock_file(), its result is not looked at
CreateLock(p) ==
    /\ pc[p] = "create_lock"
    /\ \E ok \in BOOLEAN :
        /\ ok \/ "lock_create" \in faulty
        /\ lock' = create_lock_file(ok)
        /\ created' = [created EXCEPT ![p] = ok]
    /\ Goto(p, "preflight")
    /\ UNCHANGED <<last_sync, backups, git, dry_run, ret, idx, backup_failures, trace,
                   result, saw_lock>>
    /\ UNCHANGED nonsync

\* perform_sync, lines 1374-1388: the pre-flight checks and the URL check
Preflight(p) ==
    /\ pc[p] = "preflight"
    /\ \E e \in PreflightEnvs :
        /\ PreflightFaults(e) \subseteq faulty
        /\ LET chk == perform_preflight_checks(config, e)
           IN  /\ Did(p, chk.ops)
               /\ IF ~chk.all_passed \/ config.repository.url = ""
                  THEN Returning(p, "False") /\ Goto(p, "finally")
                  ELSE UNCHANGED ret /\ Goto(p, "pull")
    /\ UNCHANGED <<lock, last_sync, backups, git, dry_run, created, idx, backup_failures,
                   result, saw_lock>>
    /\ UNCHANGED nonsync

\* a pull whose failure ends the sync
after_pull_fatal(pulled, enabled) ==
    IF ~pulled THEN [pc |-> "finally", ret |-> "False"]
    ELSE IF enabled = <<>> THEN [pc |-> "finally", ret |-> "True"]
    ELSE [pc |-> "backup", ret |-> "none"]

\* perform_sync, lines 1392-1405: what follows pull_changes.  Its result
\* is only reported; with no utility enabled perform_sync returns True.
after_pull(pulled, enabled) ==
    IF enabled = <<>> THEN [pc |-> "finally", ret |-> "True"]
    ELSE [pc |-> "backup", ret |-> "none"]

\* perform_sync, lines 1390-1405: the pull, and the early return when no
\* utility is enabled
Pull(p) ==
    /\ pc[p] = "pull"
    /\ IF dry_run[p]
       THEN /\ Did(p, <<Op("would", "pull", TRUE)>>)
            /\ UNCHANGED <<backups, git>>
            /\ LET next == after_pull(TRUE, get_enabled_utilities(config))
               IN  Returning(p, next.ret) /\ Goto(p, next.pc)
       ELSE \E e \in PullEnvs :
            /\ PullFaults(e) \subseteq faulty
            /\ LET r == pull_changes(config.sync.pull_strategy = "rebase", e, backups, git)
                   next == after_pull(r.ret, get_enabled_utilities(config))
               IN  /\ Did(p, <<Op("pull", "", r.ret)>> \o r.cmds)
                   /\ backups' = r.backups
                   /\ git' = r.git
                   /\ Returning(p, next.ret) /\ Goto(p, next.pc)
    /\ idx' = [idx EXCEPT ![p] = 1]
    /\ UNCHANGED <<lock, last_sync, dry_run, created, backup_failures, result, saw_lock>>
    /\ UNCHANGED nonsync

\* perform_sync, lines 1412-1525: one iteration of the loop over the
\* enabled utilities (the size report reads the trees and changes nothing)
\* e.mkdir_ok is FALSE when os.makedirs(backup_path) raises for a reason the
\* trees do not show (no space, no permission); the call is outside the
\* try blocks of backup_utility and backup_fonts and not made in a dry run
BackupEnvs == [rsync : BOOLEAN, rsync_ok : BOOLEAN, mkdir_ok : BOOLEAN]

backup_step(utility, dry, e, home_tree, backups_tree) ==
    IF ~dry /\ ~e.mkdir_ok
    THEN [raised |-> TRUE, success |-> FALSE, files_copied |-> 0, log |-> <<>>,
          fs |-> backups_tree]
    ELSE IF utility.name = "fonts"
    THEN backup_fonts(utility.custom_fonts, utility.include_patterns,
                      utility.exclude_patterns, dry, home_tree, backups_tree)
    ELSE backup_utility(utility.name, utility.paths, utility.exclude_patterns,
                        dry, e, home_tree, backups_tree)

BackupLog(log) ==
    [i \in 1..Len(log) |-> Op(log[i].op, <<log[i].utility, log[i].src>>, ~log[i].dry_run)]

Backup(p) ==
    /\ pc[p] = "backup"
    /\ \E e \in BackupEnvs :
        /\ e.rsync_ok \/ "rsync" \in faulty
        /\ e.mkdir_ok \/ "mkdir" \in faulty
        /\ LET enabled == get_enabled_utilities(config)
               utility == enabled[idx[p]]
               r == backup_step(utility, dry_run[p], e, home, backups)
           IN  /\ backups' = r.fs
               /\ Did(p, <<Op("backup", utility.name, r.success)>> \o BackupLog(r.log))
               /\ backup_failures' =
                    [backup_failures EXCEPT ![p] =
                        IF r.success \/ r.raised THEN @ ELSE Append(@, utility.name)]
               /\ IF r.raised
                  THEN Returning(p, "raised") /\ Goto(p, "finally") /\ UNCHANGED idx
                  ELSE /\ UNCHANGED ret
                       /\ idx' = [idx EXCEPT ![p] = @ + 1]
                       /\ Goto(p, IF idx[p] = Len(enabled) THEN "commit" ELSE "backup")
    /\ UNCHANGED <<lock, last_sync, git, dry_run, created, result, saw_lock>>
    /\ UNCHANGED nonsync

\* a sync that goes on to the push whatever commit_changes returned
after_commit_pushing(committed) == [pc |-> "push", ret |-> "none"]

\* perform_sync, lines 1558-1561: a failed commit_changes ends the sync
\* with False, before the push and the timestamp
after_commit(committed) ==
    IF committed THEN [pc |-> "push", ret |-> "none"]
    ELSE [pc |-> "finally", ret |-> "False"]

\* perform_sync, lines 1552-1561 and 1568-1569: the commit
Commit(p) ==
    /\ pc[p] = "commit"
    /\ IF config.sync.auto_commit /\ ~dry_run[p]
       THEN IF ~format_ok(config.sync.commit_message_template)
            THEN /\ Returning(p, "raised") /\ Goto(p, "finally")
                 /\ UNCHANGED <<git, trace>>
            ELSE \E e \in CommitEnvs :
                 /\ CommitFaults(e) \subseteq faulty
                 /\ LET r == commit_changes(e, backups, git)
                    IN  /\ Did(p, <<Op("commit_changes", "", r.ret)>> \o r.cmds)
                        /\ git' = r.git
                        /\ Returning(p, after_commit(r.ret).ret)
                        /\ Goto(p, after_commit(r.ret).pc)
       ELSE /\ IF config.sync.auto_commit
               THEN Did(p, <<Op("would", "commit and push", TRUE)>>)
               ELSE UNCHANGED trace
            /\ Goto(p, "timestamp")
            /\ UNCHANGED <<git, ret>>
    /\ UNCHANGED <<lock, last_sync, backups, dry_run, created, idx, backup_failures,
                   result, saw_lock>>
    /\ UNCHANGED nonsync

\* perform_sync, lines 1563-1567: the push, whose failure is only reported
Push(p) ==
    /\ pc[p] = "push"
    /\ \E ok \in BOOLEAN :
        /\ ok \/ "push" \in faulty
        /\ LET r == push_changes(ok, git)
           IN  /\ Did(p, <<Op("push_changes", "", r.ret)>> \o r.cmds)
               /\ git' = r.git
    /\ Goto(p, "timestamp")
    /\ UNCHANGED <<lock, last_sync, backups, dry_run, created, ret, idx, backup_failures,
                   result, saw_lock>>
    /\ UNCHANGED nonsync

\* update_last_sync_time: ok is FALSE when open() or write() raises; the
\* function then returns False
update_last_sync_time(ok) == IF ok THEN <<now>> ELSE last_sync

\* perform_sync, lines 1571-1577: the last-sync timestamp, whose result is
\* not looked at, and return True
Timestamp(p) ==
    /\ pc[p] = "timestamp"
    /\ IF ~dry_run[p]
       THEN \E ok \in BOOLEAN :
            /\ ok \/ "last_sync_write" \in faulty
            /\ last_sync' = update_last_sync_time(ok)
            /\ Did(p, <<Op("update_last_sync_time", "", ok)>>)
       ELSE UNCHANGED <<last_sync, trace>>
    /\ Returning(p, "True")
    /\ Goto(p, "finally")
    /\ UNCHANGED <<lock, backups, git, dry_run, created, idx, backup_failures,
                   result, saw_lock>>
    /\ UNCHANGED nonsync

\* sync_once, lines 1367-1368: the finally block, then the return or the
\* exception of perform_sync
Finally(p) ==
    /\ pc[p] = "finally"
    /\ lock' = remove_lock_file
    /\ result' = [result EXCEPT ![p] = ret[p]]
    /\ Goto(p, "done")
    /\ UNCHANGED <<last_sync, backups, git, dry_run, created, ret, idx, backup_failures,
                   trace, saw_lock>>
    /\ UNCHANGED nonsync

\* ------------------------------------------------- the explored inputs
\* The home tree: ~/f stands for a configured file (~/.gitconfig), ~/d for
\* a configured directory (~/.config/git) holding the file g, Fonts for
\* ~/Library/Fonts with two font files.
PartPaths(part) ==
    IF part = "f" THEN {<<"f">>}
    ELSE IF part = "d" THEN {<<"d">>, <<"d", "g">>}
    ELSE {<<"Fonts">>, <<"Fonts", "p.ttf">>, <<"Fonts", "q.ttf">>}

HomeOf(parts) ==
    [q \in UNION {PartPaths(x) : x \in parts} |->
        IF q \in {<<"d">>, <<"Fonts">>} THEN Dir ELSE 1]

\* everything there, ~/f missing, the fonts directory missing, both
\* configured paths of the git utility missing
SyncHomes == {HomeOf(parts) : parts \in {{"f", "d", "Fonts"}, {"d", "Fonts"}, {"f", "d"}, {"Fonts"}}}

\* UTILITY_CONFIGS["git"]: a file and a directory written with a trailing "/"
GitPaths == <<Path(<<"f">>, FALSE), Path(<<"d">>, TRUE)>>

Utility(name, enabled, paths, exclude_patterns, custom_fonts, include_patterns) ==
    [name |-> name, enabled |-> enabled, paths |-> paths,
     exclude_patterns |-> exclude_patterns, custom_fonts |-> custom_fonts,
     include_patterns |-> include_patterns]

GitUtilities ==
    {Utility("git", FALSE, GitPaths, {}, <<>>, <<>>),
     Utility("git", TRUE, GitPaths, {}, <<>>, <<>>),
     Utility("git", TRUE, GitPaths, {{"g"}}, <<>>, <<>>)}

FontsPaths == <<Path(FontsDir, TRUE)>>
FontsUtilities ==
    {Utility("fonts", FALSE, FontsPaths, {}, <<>>, <<>>),
     Utility("fonts", TRUE, FontsPaths, {}, <<>>, <<>>),
     Utility("fonts", TRUE, FontsPaths, {}, <<{"p.ttf"}>>, <<>>),
     Utility("fonts", TRUE, FontsPaths, {{"p.ttf"}}, <<>>, <<{"q.ttf"}>>)}

SyncSetting(auto_commit, commit_message_template, pull_strategy) ==
    [auto_commit |-> auto_commit, commit_message_template |-> commit_message_template,
     pull_strategy |-> pull_strategy]

\* DEFAULT_CONFIG["sync"], and one setting changed at a time: the merge
\* strategy, a template with an unknown placeholder, auto-commit off
DefaultSync == SyncSetting(TRUE, {"date", "changes"}, "rebase")
SyncSettings ==
    {DefaultSync,
     SyncSetting(TRUE, {"date", "changes"}, "merge"),
     SyncSetting(TRUE, {"date", "host"}, "rebase"),
     SyncSetting(FALSE, {"date", "changes"}, "rebase")}

Config(url, sync, utilities) ==
    [repository |-> [url |-> url, branch |-> "main"], sync |-> sync,
     utilities |-> utilities]

SyncConfigs ==
    {Config(url, sync, <<g, f>>) :
        url \in {"", "git@"},
        sync \in SyncSettings,
        g \in GitUtilities, f \in FontsUtilities}

\* DEFAULT_CONFIG with a repository URL set
DefaultConfig ==
    Config("git@", DefaultSync,
           <<Utility("git", TRUE, GitPaths, {}, <<>>, <<>>),
             Utility("fonts", TRUE, FontsPaths, {}, <<>>, <<>>)>>)

\* the repository before the command: nothing backed up yet, an earlier
\* backup that is committed and pushed, or an earlier backup left uncommitted
PriorBackup == (<<"git">> :> Dir) @@ (<<"git", "f">> :> 2)
Repo(tree, committed) ==
    [backups |-> tree,
     git |-> [committed |-> committed, index |-> committed, stash |-> <<>>,
              in_progress |-> "none", pushed |-> committed]]
Repos == {Repo(EmptyFS, EmptyFS), Repo(PriorBackup, PriorBackup), Repo(PriorBackup, EmptyFS)}

NotLoaded == [done |-> FALSE]
NoBackup == [done |-> FALSE]
NoRestore == [done |-> FALSE]
NoSetup == [done |-> FALSE]

\* what every sync invocation starts with
InitProcs(running) ==
    /\ pc = [p \in Procs |-> IF p \in running THEN "idle" ELSE "off"]
    /\ dry_run \in {d \in [Procs -> BOOLEAN] : \A p \in Procs \ running : ~d[p]}
    /\ created = [p \in Procs |-> FALSE]
    /\ ret = [p \in Procs |-> "none"]
    /\ idx = [p \in Procs |-> 0]
    /\ backup_failures = [p \in Procs |-> <<>>]
    /\ trace = [p \in Procs |-> <<>>]
    /\ result = [p \in Procs |-> "none"]
    /\ saw_lock = [p \in Procs |-> FALSE]

InitFiles ==
    /\ setup = NoSetup
    /\ now = 1
    /\ restore_backups = EmptyFS
    /\ backed_up = NoBackup
    /\ restored = NoRestore
    /\ edits = 0
    /\ restores = 0

InitRest ==
    /\ InitFiles
    /\ config_file = MissingFile
    /\ defaults = DEFAULT_CONFIG
    /\ loaded = NotLoaded

\* The faults explored along a whole sync: one way for each step to fail.
SyncFaults == {"lock_create", "no_git", "no_disk", "no_network", "no_ssh_key", "no_lfs",
               "fetch", "rsync", "commit", "push", "last_sync_write"}

\* One `sync` command from any configuration, home tree and repository; the
\* lock file may have been left behind by a process that died.
Init ==
    /\ config \in SyncConfigs
    /\ home \in SyncHomes
    /\ faulty = SyncFaults
    /\ lock \in BOOLEAN
    /\ last_sync = <<0>>
    /\ \E r \in Repos : backups = r.backups /\ git = r.git
    /\ InitProcs({1})
    /\ InitRest

SyncNext(p) ==
    \/ SyncOnce(p)
    \/ CreateLock(p)
    \/ Preflight(p)
    \/ Pull(p)
    \/ Backup(p)
    \/ Commit(p)
    \/ Push(p)
    \/ Timestamp(p)
    \/ Finally(p)

Next == \E p \in Procs : SyncNext(p)

Spec == Init /\ [][Next]_vars

\* NumProcs `sync` commands started together with the default
\* configuration; the only fault is a lock file that cannot be written.
ConcInit ==
    /\ config = DefaultConfig
    /\ home = HomeOf({"f", "d", "Fonts"})
    /\ faulty = {"lock_create"}
    /\ lock = FALSE
    /\ last_sync = <<>>
    /\ backups = EmptyFS
    /\ git = Repo(EmptyFS, EmptyFS).git
    /\ InitProcs(Procs)
    /\ InitRest

ConcSpec == ConcInit /\ [][Next]_vars

\* One `sync` command against every outcome of the git commands and of
\* os.makedirs in the backups.  The repository may hold the committed
\* backup of this very home tree, a tracked file that was changed since the
\* last commit, files a failed commit left staged, or files git does not
\* track yet next to a stash entry that an earlier pop left behind.
\* the backups tree an earlier sync of the same home tree has left
SyncedBackup ==
    LET e == [rsync |-> FALSE, rsync_ok |-> TRUE, mkdir_ok |-> TRUE]
        h == HomeOf({"f", "d", "Fonts"})
        first == backup_step(DefaultConfig.utilities[1], FALSE, e, h, EmptyFS)
    IN  backup_step(DefaultConfig.utilities[2], FALSE, e, h, first.fs).fs
GitRepos ==
    LET modified == (<<"git">> :> Dir) @@ (<<"git", "f">> :> 3)
        untracked == PriorBackup @@ (<<"git", "d">> :> Dir) @@ (<<"git", "d", "g">> :> 1)
    IN  Repos \cup
        {Repo(SyncedBackup, SyncedBackup),
         Repo(modified, PriorBackup),
         [Repo(PriorBackup, EmptyFS) EXCEPT !.git.index = PriorBackup],
         [Repo(untracked, PriorBackup) EXCEPT !.git.stash = <<FilesOf(modified)>>]}

GitFaults == {"status", "stash", "fetch", "pull", "pull.rebase", "merge", "pop",
              "mkdir", "add", "commit", "push"}

GitConfigs ==
    {Config("git@", sync, DefaultConfig.utilities) :
        sync \in {DefaultSync,
                  SyncSetting(TRUE, {"date", "changes"}, "merge"),
                  SyncSetting(FALSE, {"date", "changes"}, "rebase")}}

GitInit ==
    /\ config \in GitConfigs
    /\ home = HomeOf({"f", "d", "Fonts"})
    /\ faulty = GitFaults
    /\ lock = FALSE
    /\ last_sync = <<0>>
    /\ \E r \in GitRepos : backups = r.backups /\ git = r.git
    /\ InitProcs({1})
    /\ InitRest

GitSpec == GitInit /\ [][Next]_vars

\* ------------------------------------------------- dry run and real run
\* One `sync` command, with --dry-run or without, in an environment where
\* every command works.  The fonts folder may hold a subfolder, and the
\* include patterns of the fonts utility may match it.
DryInit ==
    /\ config \in {Config("git@", sync, <<g, f>>) :
                      sync \in {DefaultSync, SyncSetting(FALSE, {"date", "changes"}, "rebase")},
                      g \in GitUtilities,
                      f \in FontsUtilities \cup
                            {Utility("fonts", TRUE, FontsPaths, {}, <<>>,
                                     <<{"e", "q.ttf"}, {"p.ttf"}>>)}}
    /\ home \in {HomeOf({"f", "d", "Fonts"}), HomeOf({"d", "Fonts"}),
                  HomeOf({"f", "d", "Fonts"}) @@ (<<"Fonts", "e">> :> Dir)}
    /\ faulty = {}
    /\ lock = FALSE
    /\ last_sync = <<0>>
    /\ \E r \in Repos : backups = r.backups /\ git = r.git
    /\ InitProcs({1})
    /\ InitRest

DrySpec == DryInit /\ [][Next]_vars

\* ---------------------------------------------- commands next to a sync
\* setup_command with --fresh, once the user has confirmed (lines
\* 2639-2688): the configuration file, REPO_DIR, the last-sync file and the
\* lock file are removed, whatever else is running.  The wizard that
\* follows waits for the user's answers.
SetupFresh ==
    /\ config_file' = MissingFile
    /\ backups' = EmptyFS
    /\ git' = Repo(EmptyFS, EmptyFS).git
    /\ last_sync' = <<>>
    /\ lock' = FALSE
    /\ UNCHANGED <<config, faulty, setup, fsvars, defaults, loaded, pc, dry_run, created,
                   ret, idx, backup_failures, trace, result, saw_lock>>

\* restore_command up to its question "Do you want to continue?" (lines
\* 2866-2886): the pre-flight checks and pull_changes with the strategy of
\* the configuration.  Nothing in it looks at the lock file.
RestoreCommand ==
    /\ config.repository.url # ""
    /\ \E c \in PreflightEnvs, e \in PullEnvs :
          /\ PreflightFaults(c) \subseteq faulty
          /\ PullFaults(e) \subseteq faulty
          /\ perform_preflight_checks(config, c).all_passed
          /\ LET r == pull_changes(config.sync.pull_strategy = "rebase", e, backups, git)
             IN  backups' = r.backups /\ git' = r.git
    /\ UNCHANGED <<config, faulty, setup, fsvars, cfgvars, lock, last_sync, pc, dry_run,
                   created, ret, idx, backup_failures, trace, result, saw_lock>>

\* One `sync` command, and `restore` and `setup --fresh` commands started
\* at any time next to it; a fetch may fail.
CommandsInit ==
    /\ config = DefaultConfig
    /\ home = HomeOf({"f", "d", "Fonts"})
    /\ faulty = {"fetch"}
    /\ lock = FALSE
    /\ last_sync = <<0>>
    /\ \E r \in Repos : backups = r.backups /\ git = r.git
    /\ InitProcs({1})
    /\ InitRest

CommandsSpec == CommandsInit /\ [][Next \/ SetupFresh \/ RestoreCommand]_vars

\* ------------------------------------------------------- a killed sync
\* The process of a `sync` command is killed (SIGKILL, power loss) after
\* create_lock_file and before the finally block of sync_once has run: it
\* takes no further step, and its remove_lock_file is never called.
Die(p) ==
    /\ pc[p] \in {"preflight", "pull", "backup", "commit", "push", "timestamp", "finally"}
    /\ Goto(p, "dead")
    /\ UNCHANGED <<lock, last_sync, backups, git, dry_run, created, ret, idx,
                   backup_failures, trace, result, saw_lock>>
    /\ UNCHANGED nonsync

\* NumProcs `sync` commands, each of which may be killed
StaleSpec == ConcInit /\ [][Next \/ \E p \in Procs : Die(p)]_vars

\* ------------------------------------------------- backup and restore
\* backup_utility and restore_utility of one utility, as perform_sync
\* (line 1519) and restore_command (line 2917) call them with the paths of
\* its configuration, with user edits and the clock in between.
PathsOf(cfg, utility_name) ==
    LET found == SelectSeq(cfg.utilities, LAMBDA u : u.name = utility_name)
    IN  found[1].paths

\* perform_sync's call of backup_utility for the git utility (no dry run)
BackupUtility ==
    /\ \A p \in Procs : pc[p] = "off"
    /\ LET paths == PathsOf(config, "git")
           res == backup_utility("git", paths, {}, FALSE,
                                 [rsync |-> FALSE, rsync_ok |-> TRUE], home, backups)
       IN  /\ backups' = res.fs
           /\ backed_up' = [done |-> TRUE, home |-> home, paths |-> paths,
                            success |-> res.success, files_copied |-> res.files_copied]
    /\ UNCHANGED <<config, faulty, setup, cfgvars, home, now, restore_backups, restored, edits,
                   restores, lock, last_sync, git, pc, dry_run, created, ret, idx,
                   backup_failures, trace, result, saw_lock>>

\* the user changes or deletes a file of the home tree after a backup
\* (the home trees before the first backup are those of the initial states)
Edit ==
    /\ \A p \in Procs : pc[p] = "off"
    /\ backed_up.done
    /\ edits < MaxEdits
    /\ \E q \in {r \in DOMAIN home : home[r] # Dir} :
          \/ home' = [home EXCEPT ![q] = 3]     \* content no other file has
          \/ home' = [r \in DOMAIN home \ {q} |-> home[r]]
    /\ edits' = edits + 1
    /\ UNCHANGED <<config, faulty, setup, cfgvars, syncvars, now, restore_backups, backed_up,
                   restored, restores>>

\* a second passes after a restore (the time of the first restore only
\* names its restore_backups directory)
Tick ==
    /\ \A p \in Procs : pc[p] = "off"
    /\ restored.done
    /\ now < MaxTime
    /\ now' = now + 1
    /\ UNCHANGED <<config, faulty, setup, cfgvars, syncvars, home, restore_backups, backed_up,
                   restored, edits, restores>>

\* restore_command's call of restore_utility for the git utility
RestoreUtility ==
    /\ \A p \in Procs : pc[p] = "off"
    /\ restores < MaxRestores
    /\ LET paths == PathsOf(config, "git")
           res == restore_utility("git", paths, now, home, backups, restore_backups)
       IN  /\ home' = res.home
           /\ restore_backups' = res.restore_backups
           /\ restored' = [done |-> TRUE, found |-> res.found, raised |-> res.raised,
                           success |-> res.success, files_restored |-> res.files_restored,
                           written |-> res.written, safety_ok |-> res.safety_ok,
                           backup_dir |-> res.backup_dir, paths |-> paths,
                           before |-> home, after |-> res.home,
                           safety |-> IF res.found
                                      THEN res.restore_backups[res.backup_dir]
                                      ELSE EmptyFS,
                           backed_up |-> backed_up]
    /\ restores' = restores + 1
    /\ UNCHANGED <<config, faulty, setup, cfgvars, syncvars, now, backed_up, edits>>

\* the home trees of the restore runs: ~/f there or not; ~/d missing, with
\* the file g, or with the files g and f
RestoreHomes ==
    {[q \in fs \cup ds |-> IF q = <<"d">> THEN Dir ELSE IF q = <<"d", "f">> THEN 2 ELSE 1] :
        fs \in {{}, {<<"f">>}},
        ds \in {{}, {<<"d">>, <<"d", "g">>}, {<<"d">>, <<"d", "g">>, <<"d", "f">>}}}

\* the path lists of the utility: a file; a file and a directory; the same
\* with the directory written with a trailing "/" as UTILITY_CONFIGS does,
\* in both orders; a file and a file inside a directory; a directory
\* written both ways
RestorePaths ==
    {<<Path(<<"f">>, FALSE)>>,
     <<Path(<<"f">>, FALSE), Path(<<"d">>, FALSE)>>,
     <<Path(<<"f">>, FALSE), Path(<<"d">>, TRUE)>>,
     <<Path(<<"d">>, TRUE), Path(<<"f">>, FALSE)>>,
     <<Path(<<"f">>, FALSE), Path(<<"d", "g">>, FALSE)>>,
     <<Path(<<"d">>, FALSE), Path(<<"d">>, TRUE)>>}

RestoreInit ==
    /\ \E paths \in RestorePaths :
          config = Config("git@", DefaultSync, <<Utility("git", TRUE, paths, {}, <<>>, <<>>)>>)
    /\ home \in RestoreHomes
    /\ faulty = {}
    /\ lock = FALSE
    /\ last_sync = <<>>
    /\ backups = EmptyFS
    /\ git = Repo(EmptyFS, EmptyFS).git
    /\ InitProcs({})
    /\ InitRest

RestoreNext ==
    \/ BackupUtility
    \/ Edit
    \/ Tick
    \/ RestoreUtility

RestoreSpec == RestoreInit /\ [][RestoreNext]_vars

\* ------------------------------------------------------- configuration file
\* One process that calls load_config (every command does, sync twice:
\* lines 2701 and 1231) while the file may be rewritten from outside.
LoadConfig ==
    /\ \A p \in Procs : pc[p] = "off"
    /\ \E write_ok \in BOOLEAN :
          LET res == load_config(config_file, defaults, write_ok)
          IN  /\ loaded' = [done |-> TRUE, command |-> "load", config |-> res.config,
                            file |-> config_file, defaults |-> defaults,
                            written |-> res.file # config_file, wrote |-> res.file]
              /\ defaults' = res.defaults
              /\ config_file' = res.file
    /\ UNCHANGED <<config, faulty, setup, fsvars, syncvars>>

\* config_command with --reset (lines 2733 and 2756-2759), the first thing
\* its process does: load_config(), then create_default_config().  When
\* the write raises, the exception ends the command.
ConfigReset ==
    /\ \A p \in Procs : pc[p] = "off"
    /\ ~loaded.done
    /\ \E load_ok, write_ok \in BOOLEAN :
          LET res == load_config(config_file, defaults, load_ok)
              reset == create_default_config(res.defaults, write_ok)
              after == IF reset.raised THEN res.file ELSE reset.file
          IN  /\ loaded' = [done |-> TRUE, command |-> "reset", config |-> res.config,
                            file |-> config_file, defaults |-> defaults,
                            written |-> ~reset.raised, wrote |-> after]
              /\ defaults' = res.defaults
              /\ config_file' = after
    /\ UNCHANGED <<config, faulty, setup, fsvars, syncvars>>

\* the keys a configuration file may use: the default ones and one unknown
\* key at the top level; 7 stands for any value that is no object
FilePaths ==
    {<<"sync">>, <<"sync", "frequency">>, <<"utilities">>, <<"utilities", "git">>,
     <<"utilities", "git", "enabled">>, <<"extra">>}

WellFormed(t) ==
    \A p \in DOMAIN t :
        /\ Len(p) > 1 => (Front(p) \in DOMAIN t /\ t[Front(p)] = Obj)
        /\ (p = <<"extra">> \/ Len(p) = 3) => t[p] # Obj

FileTrees ==
    {t \in UNION {[S -> {Obj, 7}] : S \in SUBSET FilePaths} : WellFormed(t)}

ConfigFiles == {MissingFile, InvalidFile} \cup {ConfigFile("object", t) : t \in FileTrees}

\* the user or another process rewrites or removes the configuration file
WriteConfigFile ==
    /\ \A p \in Procs : pc[p] = "off"
    /\ edits < MaxEdits
    /\ config_file' \in ConfigFiles \ {config_file}
    /\ edits' = edits + 1
    /\ UNCHANGED <<config, faulty, setup, syncvars, home, now, restore_backups, backed_up,
                   restored, restores, defaults, loaded>>

ConfigInit ==
    /\ config = DefaultConfig
    /\ home = EmptyFS
    /\ faulty = {}
    /\ lock = FALSE
    /\ last_sync = <<>>
    /\ backups = EmptyFS
    /\ git = Repo(EmptyFS, EmptyFS).git
    /\ InitProcs({})
    /\ InitFiles
    /\ config_file \in ConfigFiles
    /\ defaults = DEFAULT_CONFIG
    /\ loaded = NotLoaded

ConfigNext ==
    \/ LoadConfig
    \/ ConfigReset
    \/ WriteConfigFile

ConfigSpec == ConfigInit /\ [][ConfigNext]_vars

\* config_command (lines 2728-2769) with the flags argparse gives it (lines
\* 2952-2957): frequency is <<>> without --frequency and <<N>> with
\* --frequency N; enable and disable are "" without the flag.  An if/elif
\* chain picks one branch by the truth value of each flag, and Python takes
\* the integer 0 and None alike as false.  branch is the one taken, and
\* "ui" the interactive menu of run_config_ui.  A section of the loaded
\* configuration that is no object makes the assignment raise; so does a
\* failed write of create_default_config, while save_config returns False.
\* 2 stands for the JSON value false.
ConfigCommand ==
    /\ \A p \in Procs : pc[p] = "off"
    /\ ~loaded.done
    /\ \E args \in [frequency : {<<>>, <<-1>>, <<0>>, <<900>>}, enable : {"", "git", "vim"},
                    disable : {"", "git"}, reset : BOOLEAN, fonts : BOOLEAN],
          load_ok, save_ok \in BOOLEAN :
          LET res == load_config(config_file, defaults, load_ok)
              cfg == res.config
              branch == IF args.frequency # <<>> /\ args.frequency[1] # 0 THEN "frequency"
                        ELSE IF args.enable # "" THEN "enable"
                        ELSE IF args.disable # "" THEN "disable"
                        ELSE IF args.reset THEN "reset"
                        ELSE IF args.fonts THEN "fonts"
                        ELSE "ui"
              name == IF branch = "enable" THEN args.enable ELSE args.disable
              known == <<"utilities", name>> \in DOMAIN cfg
              raised ==
                  \/ branch = "frequency" /\ cfg[<<"sync">>] # Obj
                  \/ branch \in {"enable", "disable", "fonts"} /\ cfg[<<"utilities">>] # Obj
                  \/ branch \in {"enable", "disable"} /\ known
                     /\ cfg[<<"utilities", name>>] # Obj
                  \/ branch = "reset" /\ ~save_ok
              put(path, v) ==
                  [q \in {r \in DOMAIN cfg : Len(r) <= Len(path)
                                                 \/ SubSeq(r, 1, Len(path)) # path}
                         \cup {path} |-> IF q = path THEN v ELSE cfg[q]]
              new == IF branch = "frequency"
                     THEN put(<<"sync", "frequency">>, args.frequency[1])
                     ELSE IF branch = "enable" THEN put(<<"utilities", name, "enabled">>, 1)
                     ELSE IF branch = "disable" THEN put(<<"utilities", name, "enabled">>, 2)
                     ELSE res.defaults
              saves == /\ ~raised
                       /\ save_ok
                       /\ \/ branch \in {"frequency", "reset"}
                          \/ branch \in {"enable", "disable"} /\ known
              after == IF saves THEN ConfigFile("object", new) ELSE res.file
          IN  /\ loaded' = [done |-> TRUE, command |-> "config", args |-> args,
                            branch |-> branch, raised |-> raised, save_ok |-> save_ok,
                            config |-> cfg, file |-> config_file, defaults |-> defaults,
                            written |-> saves, wrote |-> after]
              /\ defaults' = res.defaults
              /\ config_file' = after
    /\ UNCHANGED <<config, faulty, setup, fsvars, syncvars>>

\* one config command with any flags, over any configuration file
FlagsSpec == ConfigInit /\ [][ConfigCommand]_vars

\* ------------------------------------------------------ repository setup
\* init_repository reaches the branch resolution of create_new_repo or of
\* connect_existing_repo with the branch of the configuration, from any
\* branches REPO_DIR and origin may have.
BranchNames == {<<"main">>, <<"main", "-old">>, <<"trunk">>}
SetupRepos ==
    {r \in [current : BranchNames, born : BOOLEAN, locals : SUBSET BranchNames,
            remotes : SUBSET BranchNames, upstream : {{}}] :
        IF r.born THEN r.current \in r.locals ELSE r.locals = {}}

ResolveBranch ==
    /\ \A p \in Procs : pc[p] = "off"
    /\ ~setup.done
    /\ \E fn \in {"create_new_repo", "connect_existing_repo"}, e \in BranchEnvs :
          LET branch == <<config.repository.branch>>
              r == resolve_branch(fn, branch, setup.repo, e)
          IN  setup' = [done |-> TRUE, fn |-> fn, branch |-> branch, before |-> setup.repo,
                        env |-> e, action |-> r.action, ret |-> r.ok, cmds |-> r.cmds,
                        repo |-> r.repo]
    /\ UNCHANGED <<config, faulty, fsvars, cfgvars, syncvars>>

SetupInit ==
    /\ config = DefaultConfig
    /\ home = EmptyFS
    /\ faulty = {}
    /\ lock = FALSE
    /\ last_sync = <<>>
    /\ backups = EmptyFS
    /\ git = Repo(EmptyFS, EmptyFS).git
    /\ InitProcs({})
    /\ \E r \in SetupRepos : setup = [done |-> FALSE, repo |-> r]
    /\ now = 1
    /\ restore_backups = EmptyFS
    /\ backed_up = NoBackup
    /\ restored = NoRestore
    /\ edits = 0
    /\ restores = 0
    /\ config_file = MissingFile
    /\ defaults = DEFAULT_CONFIG
    /\ loaded = NotLoaded

SetupSpec == SetupInit /\ [][ResolveBranch]_vars

\* ------------------------------------------------- first-time initialization
\* init_repository with no REPO_DIR, or an empty one: create_new_repo_flow
\* calls create_new_repo, against any branches of the remote, either
\* initial branch of git init (init.defaultBranch: git's own default or
\* main) and every outcome of the commands.

CreateNewRepo ==
    /\ \A p \in Procs : pc[p] = "off"
    /\ ~setup.done
    /\ \E e \in CreateEnvs :
          LET branch == <<config.repository.branch>>
              r == create_new_repo(branch, setup.initial, setup.origin, e)
          IN  setup' = [done |-> TRUE, fn |-> "create_new_repo", branch |-> branch,
                        initial |-> setup.initial, origin |-> setup.origin, env |-> e,
                        action |-> r.action, ret |-> r.ret, cmds |-> r.cmds,
                        repo |-> r.repo, made |-> r.made, remote_set |-> r.remote_set,
                        seen |-> r.seen]
    /\ UNCHANGED <<config, faulty, fsvars, cfgvars, syncvars>>

CreateInit ==
    /\ config = DefaultConfig
    /\ home = EmptyFS
    /\ faulty = {}
    /\ lock = FALSE
    /\ last_sync = <<>>
    /\ backups = EmptyFS
    /\ git = Repo(EmptyFS, EmptyFS).git
    /\ InitProcs({})
    /\ \E initial \in {<<"master">>, <<"main">>}, origin \in SUBSET BranchNames :
          setup = [done |-> FALSE, initial |-> initial, origin |-> origin]
    /\ now = 1
    /\ restore_backups = EmptyFS
    /\ backed_up = NoBackup
    /\ restored = NoRestore
    /\ edits = 0
    /\ restores = 0
    /\ config_file = MissingFile
    /\ defaults = DEFAULT_CONFIG
    /\ loaded = NotLoaded

CreateSpec == CreateInit /\ [][CreateNewRepo]_vars

\* ------------------------------------------------------------ setup wizard
\* The progress file CONFIG_DIR/.setup_progress.json is the set of the steps
\* it records; the empty set is the missing file (no call writes an empty
\* object).  ok is FALSE when the file operation raises: each of the three
\* functions catches the exception and logs a warning.
save_setup_progress(file, step, ok) == IF ok THEN file \cup {step} ELSE file
load_setup_progress(file, ok) == IF ok THEN file ELSE {}
clear_setup_progress(file, ok) == IF ok THEN {} ELSE file

\* the steps of run_setup_wizard, in order
WizardSteps == <<"repository", "utilities", "sync", "notifications">>

\* the wizard runs at most MaxRuns times in a behaviour
MaxRuns == 3

\* run_setup_wizard up to the first step (lines 1752-1767): load_config,
\* which writes the default configuration when CONFIG_PATH is missing, then
\* os.path.exists(CONFIG_PATH), then load_setup_progress and the question.
\* io_ok says whether this run can read and write the progress file; answer
\* is what the user replies when asked.
WizardStart ==
    /\ setup.pc \in {"off", "done"}
    /\ setup.runs < MaxRuns
    /\ \E write_ok, io_ok, answer \in BOOLEAN :
          LET res == load_config(config_file, defaults, write_ok)
              initial_config_exists == res.file.kind # "missing"
              progress == load_setup_progress(setup.file, io_ok)
              asked == progress # {} /\ ~initial_config_exists
              declined == asked /\ ~answer
          IN  /\ setup' = [pc |-> "step", at |-> 1, runs |-> setup.runs + 1,
                           io_ok |-> io_ok,
                           file |-> IF declined THEN clear_setup_progress(setup.file, io_ok)
                                    ELSE setup.file,
                           found |-> progress,
                           progress |-> IF declined THEN {} ELSE progress,
                           asked |-> asked, resume |-> asked /\ answer,
                           ran |-> {}, skipped |-> {}, ret |-> "none"]
              /\ loaded' = [done |-> TRUE, command |-> "setup", config |-> res.config,
                            file |-> config_file, defaults |-> defaults,
                            written |-> res.file # config_file, wrote |-> res.file]
              /\ defaults' = res.defaults
              /\ config_file' = res.file
    /\ UNCHANGED <<config, faulty, fsvars, syncvars>>

\* one of the four steps (lines 1769-1822).  A step that is in progress is
\* skipped.  step_ok is what the step's function returns, from the user's
\* answers: only a failed repository step ends the wizard.  save_config
\* follows every step but the last, and its result is not looked at.
WizardStep ==
    /\ setup.pc = "step"
    /\ \E step_ok, save_ok \in BOOLEAN :
          LET step == WizardSteps[setup.at]
              next == IF setup.at = Len(WizardSteps)
                      THEN [setup EXCEPT !.pc = "final"]
                      ELSE [setup EXCEPT !.at = setup.at + 1]
          IN  IF step \in setup.progress
              THEN /\ setup' = [next EXCEPT !.skipped = setup.skipped \cup {step}]
                   /\ UNCHANGED config_file
              ELSE IF step = "repository" /\ ~step_ok
              THEN /\ setup' = [setup EXCEPT !.pc = "done", !.ret = "False",
                                             !.ran = setup.ran \cup {step}]
                   /\ UNCHANGED config_file
              ELSE /\ setup' = [next EXCEPT
                                  !.ran = setup.ran \cup {step},
                                  !.file = save_setup_progress(setup.file, step, setup.io_ok)]
                   /\ config_file' = IF save_ok /\ step # "notifications"
                                     THEN ConfigFile("object", loaded.config)
                                     ELSE config_file
    /\ UNCHANGED <<config, faulty, fsvars, syncvars, defaults, loaded>>

\* the final save and clear_setup_progress (lines 1824-1830)
WizardFinish ==
    /\ setup.pc = "final"
    /\ \E save_ok \in BOOLEAN :
          IF save_ok
          THEN /\ config_file' = ConfigFile("object", loaded.config)
               /\ setup' = [setup EXCEPT
                              !.pc = "done", !.ret = "True",
                              !.file = clear_setup_progress(setup.file, setup.io_ok)]
          ELSE /\ setup' = [setup EXCEPT !.pc = "done", !.ret = "False"]
               /\ UNCHANGED config_file
    /\ UNCHANGED <<config, faulty, fsvars, syncvars, defaults, loaded>>

\* the user interrupts the wizard (Ctrl-C at a prompt) or its terminal is
\* closed: the process ends where it is, the files stay as they are
WizardInterrupted ==
    /\ setup.pc \in {"step", "final"}
    /\ setup' = [setup EXCEPT !.pc = "off"]
    /\ UNCHANGED <<config, faulty, fsvars, cfgvars, syncvars>>

\* a machine on which setup has never run
WizardInit ==
    /\ config = DefaultConfig
    /\ home = EmptyFS
    /\ faulty = {}
    /\ lock = FALSE
    /\ last_sync = <<>>
    /\ backups = EmptyFS
    /\ git = Repo(EmptyFS, EmptyFS).git
    /\ InitProcs({})
    /\ setup = [pc |-> "off", at |-> 1, runs |-> 0, io_ok |-> TRUE, file |-> {},
                found |-> {}, progress |-> {}, asked |-> FALSE, resume |-> FALSE,
                ran |-> {}, skipped |-> {}, ret |-> "none"]
    /\ now = 1
    /\ restore_backups = EmptyFS
    /\ backed_up = NoBackup
    /\ restored = NoRestore
    /\ edits = 0
    /\ restores = 0
    /\ config_file = MissingFile
    /\ defaults = DEFAULT_CONFIG
    /\ loaded = NotLoaded

WizardSpec ==
    WizardInit /\ [][WizardStart \/ WizardStep \/ WizardFinish \/ WizardInterrupted]_vars

\* =============================================================== claims
\* perform_sync is running in process p
InPerformSync(p) == pc[p] \in {"preflight", "pull", "backup", "commit", "push", "timestamp"}

\* process p takes the step
Moved(p) == pc'[p] # pc[p] \/ idx'[p] # idx[p]

\* C1: when the lock file exists at the is_syncing() check, sync_once
\* returns False at once: no pre-flight check, pull, backup, commit, push or
\* timestamp update is done, nothing is changed, and the lock file stays.
C1_LockHeldReturnsFalse ==
    [][\A p \in Procs :
        (pc[p] = "idle" /\ lock /\ Moved(p)) =>
            /\ pc'[p] = "done"
            /\ result'[p] = "False"
            /\ trace'[p] = <<>>
            /\ lock'
            /\ UNCHANGED <<last_sync, backups, git>>]_vars

C1_Witness ==
    \E p \in Procs : saw_lock[p] /\ pc[p] = "done" /\ result[p] = "False" /\ lock

\* C2: at most one process is inside perform_sync at any time.
C2_AtMostOneInPerformSync ==
    Cardinality({p \in Procs : InPerformSync(p)}) <= 1

Intention(op) ==
    \/ op.op \in {"check", "would", "backup"}
    \/ op.op \in {"copy_dir", "copy_file"} /\ ~op.ok

C4_DryRunChangesNothing ==
    [][\A p \in Procs :
        (dry_run[p] /\ Moved(p)) =>
            /\ UNCHANGED <<last_sync, backups, git>>
            /\ \A i \in 1..Len(trace'[p]) : Intention(trace'[p][i])]_vars

C4_Witness ==
    \E p \in Procs :
        /\ dry_run[p] /\ pc[p] = "done" /\ result[p] = "True"
        /\ \E i \in 1..Len(trace[p]) : trace[p][i].op = "copy_dir"
        /\ \E i \in 1..Len(trace[p]) :
              trace[p][i].op = "copy_file" /\ trace[p][i].arg[1] = "fonts"
        /\ <<"git">> \notin DOMAIN backups

\* the tree below p, relative to p (the node p itself at <<>>)
Subtree(fs, p) ==
    [r \in {SubSeq(q, Len(p) + 1, Len(q)) : q \in {k \in DOMAIN fs : IsPrefix(p, k)}} |->
        fs[p \o r]]

\* C5: when create_backup_before_restore does not succeed (returns None),
\* restore_utility overwrites and deletes nothing: the home tree after it
\* is the home tree before it.
C5_NoRestoreWithoutSafetyCopy ==
    (restored.done /\ restored.found /\ ~restored.safety_ok) =>
        restored.after = restored.before

\* C6: after restore_utility, every path it overwrote or deleted that
\* existed before has a copy with its pre-restore content in
\* restore_backups/<utility>_<timestamp>/ at its path relative to the home
\* directory.
C6_EveryOverwrittenPathHasSafetyCopy ==
    (restored.done /\ restored.found) =>
        \A q \in restored.written :
            q \in DOMAIN restored.before =>
                /\ q \in DOMAIN restored.safety
                /\ restored.safety[q] = restored.before[q]

\* C7: backup_utility followed by restore_utility with the same path list
\* leaves every configured path that was backed up with the content it had
\* at the backup, and changes nothing of the home tree outside the
\* configured paths (directories above a configured path may be created).
Configured(paths, q) ==
    \E i \in 1..Len(paths) : IsPrefix(paths[i].comps, q) \/ IsPrefix(q, paths[i].comps)

C7_RestoreInvertsBackup ==
    (restored.done /\ restored.found /\ restored.backed_up.done /\ restored.backed_up.success) =>
        LET paths == restored.paths
            was == restored.backed_up.home
        IN  /\ \A i \in 1..Len(paths) :
                  path_exists(was, paths[i]) =>
                      Subtree(restored.after, paths[i].comps) = Subtree(was, paths[i].comps)
            /\ \A q \in DOMAIN restored.before \cup DOMAIN restored.after :
                  ~Configured(paths, q) =>
                      /\ q \in DOMAIN restored.before \cap DOMAIN restored.after
                      /\ restored.after[q] = restored.before[q]

\* C8: after a backup_utility that is no dry run and returns True, every
\* configured source path that exists has its copy at
\* backups/<utility>/<basename of the path>.
HasCopy(src, sp, dst, dp) ==
    /\ exists(dst, dp)
    /\ \A r \in DOMAIN Subtree(src, sp) :
          /\ exists(dst, dp \o r)
          /\ r # <<>> => dst[dp \o r] = src[sp \o r]
          /\ r = <<>> => isdir(dst, dp) = isdir(src, sp)
          /\ (r = <<>> /\ isfile(src, sp)) => dst[dp] = src[sp]

C8_EveryExistingPathHasItsCopy ==
    (backed_up.done /\ backed_up.success) =>
        \A i \in 1..Len(backed_up.paths) :
            path_exists(backed_up.home, backed_up.paths[i]) =>
                HasCopy(backed_up.home, backed_up.paths[i].comps,
                        backups, <<"git">> \o basename(backed_up.paths[i]))

\* C9: an enabled utility none of whose configured source paths exists is
\* not put on the failure list, the fonts utility included.
AllMissing(utility) ==
    \A i \in 1..Len(utility.paths) : ~path_exists(home, utility.paths[i])

C9_MissingSourceIsNoFailure ==
    \A p \in Procs :
        LET enabled == get_enabled_utilities(config)
        IN  \A i \in 1..Len(enabled) :
                (i < idx[p] /\ AllMissing(enabled[i])) =>
                    enabled[i].name \notin SeqRange(backup_failures[p])


\* the file's values win, and so every key of the file is in the result:
\* a value that is no object is there as given, an object is an object
FileTakesPrecedence(file, cfg) ==
    \A p \in DOMAIN file :
        /\ p \in DOMAIN cfg
        /\ file[p] # Obj => cfg[p] = file[p]
        /\ file[p] = Obj => cfg[p] = Obj

\* the file gives a value that is no object for a key above p
ReplacedAbove(file, p) ==
    \E n \in 1..(Len(p) - 1) :
        SubSeq(p, 1, n) \in DOMAIN file /\ file[SubSeq(p, 1, n)] # Obj

C11_ResetWritesCompiledInDefaults ==
    (loaded.done /\ loaded.command = "reset" /\ loaded.written) =>
        loaded.wrote = ConfigFile("object", DEFAULT_CONFIG)

\* the commands of the pull_changes call of invocation p, whether the call
\* has returned and what it returned
PullCmds(p) ==
    LET t == trace[p]
        first == CHOOSE i \in 1..Len(t) : t[i].op = "pull"
        after == SubSeq(t, first + 1, Len(t))
        n == CHOOSE k \in 0..Len(after) :
                /\ \A j \in 1..k : after[j].op = "git"
                /\ k < Len(after) => after[k + 1].op # "git"
    IN  SubSeq(after, 1, n)
PullReturned(p) == \E i \in 1..Len(trace[p]) : trace[p][i].op = "pull"
PullRet(p) == (CHOOSE o \in SeqRange(trace[p]) : o.op = "pull").ok
Issued(cmds, arg) == \E i \in 1..Len(cmds) : cmds[i].arg = arg

\* C12: when pull_changes runs with strategy rebase and the rebase pull
\* fails on a conflict, it aborts the rebase, then attempts one plain merge
\* pull, and returns False if that pull also fails; on every return of
\* pull_changes the working tree is not left in an in-progress rebase.
C12_NoRebaseLeftInProgress ==
    \A p \in Procs :
        (PullReturned(p) /\ config.sync.pull_strategy = "rebase") =>
            LET cmds == PullCmds(p)
            IN  /\ \A i \in 1..Len(cmds) :
                      cmds[i].arg = "rebase --abort" =>
                          /\ i > 1 /\ cmds[i - 1] = Cmd("pull --rebase", FALSE)
                          /\ i < Len(cmds) /\ cmds[i + 1].arg = "pull"
                          /\ ~cmds[i + 1].ok => (i + 1 = Len(cmds) /\ ~PullRet(p))
                /\ git.in_progress # "rebase"

\* the Pull step of a sync that is no dry run: pull_changes is called and
\* returns
PullStep(p) == pc[p] = "pull" /\ pc'[p] # "pull" /\ ~dry_run[p]
Position(cmds, arg) == CHOOSE i \in 1..Len(cmds) : cmds[i].arg = arg

\* C13: pull_changes stashes uncommitted changes before it fetches or pulls
\* (a failed stash returns False with no fetch and no pull); after a
\* successful pull it pops the stash exactly when it stashed; a failed pop
\* does not make pull_changes fail and the stash entry is left in place.
C13_StashBeforePullPopAfter ==
    [][\A p \in Procs : PullStep(p) =>
        LET cmds == PullCmds(p)'
            returned == PullRet(p)'
            pushed == stash_push(backups, git)
            stashed == Issued(cmds, "stash push") /\ pushed.saved
                       /\ cmds[Position(cmds, "stash push")].ok
        IN  /\ Issued(cmds, "stash push") =>
                  LET i == Position(cmds, "stash push")
                  IN  /\ \A j \in 1..(i - 1) : cmds[j].arg = "status"
                      /\ ~cmds[i].ok => (i = Len(cmds) /\ ~returned)
            /\ returned => (Issued(cmds, "stash pop") <=> stashed)
            /\ Issued(cmds, "stash pop") =>
                  LET i == Position(cmds, "stash pop")
                  IN  ~cmds[i].ok => (returned /\ git'.stash = pushed.git.stash)
      ]_vars

\* what a finished sync did
Finished(p) == pc[p] = "done" /\ ~saw_lock[p]
PullFailed(p) == PullReturned(p) /\ ~PullRet(p)
OpsOf(p, op) == SelectSeq(trace[p], LAMBDA o : o.op = op)
Attempted(p, op) == OpsOf(p, op) # <<>>
BackedUp(p) == [i \in 1..Len(OpsOf(p, "backup")) |-> OpsOf(p, "backup")[i].arg]
EnabledNames == [i \in 1..Len(get_enabled_utilities(config)) |->
                    get_enabled_utilities(config)[i].name]
CommitAndPushAttempted(p) ==
    /\ Len(OpsOf(p, "commit_changes")) = 1
    /\ OpsOf(p, "commit_changes")[1].ok => Len(OpsOf(p, "push_changes")) = 1

Checks(p) == OpsOf(p, "check")
CheckFailed(p) == \E i \in 1..Len(Checks(p)) : ~Checks(p)[i].ok

\* C15: if any preflight check fails, perform_sync returns False before
\* any pull, backup, commit, push or last-sync timestamp update, and every
\* check is still evaluated and reported.
C15_FailedCheckStopsSyncAfterAllChecks ==
    \A p \in Procs :
        CheckFailed(p) =>
            /\ [i \in 1..Len(Checks(p)) |-> Checks(p)[i].arg] = CheckNames
            /\ trace[p] = Checks(p)
            /\ pc[p] \in {"finally", "done"}
            /\ ret[p] = "False"
            /\ Finished(p) => result[p] = "False"
            /\ last_sync = <<0>>

C15_Witness ==
    /\ Finished(1) /\ result[1] = "False"
    /\ Len(Checks(1)) = 5
    /\ ~Checks(1)[2].ok /\ Checks(1)[3].ok /\ ~Checks(1)[4].ok

\* the utilities whose backup returned False, in the order of the attempts
FailedBackups(p) ==
    LET failed == SelectSeq(OpsOf(p, "backup"), LAMBDA o : ~o.ok)
    IN  [i \in 1..Len(failed) |-> failed[i].arg]
AfterBackups(p) == pc[p] \in {"commit", "push", "timestamp"}

\* what follows the backup loop, stated without the failure list: the
\* commit when auto-commit is on and the run is no dry run, the push when
\* the commit succeeded, the timestamp and True unless the commit failed
StepsAfterBackups(p) ==
    LET committing == config.sync.auto_commit /\ ~dry_run[p]
        commits == OpsOf(p, "commit_changes")
    IN  /\ Len(commits) = (IF committing THEN 1 ELSE 0)
        /\ Len(OpsOf(p, "push_changes")) = (IF committing /\ commits[1].ok THEN 1 ELSE 0)
        /\ result[p] = (IF committing /\ ~commits[1].ok THEN "False" ELSE "True")
        /\ Len(OpsOf(p, "update_last_sync_time")) =
              (IF result[p] = "True" /\ ~dry_run[p] THEN 1 ELSE 0)

\* C16: a failed backup of one enabled utility never stops the sync: every
\* enabled utility is attempted exactly once in configuration order, the
\* failed ones are collected in the failure list, and the commit, push and
\* timestamp steps and the return value are the same as if no backup had
\* failed.
C16_FailedBackupNeverStopsSync ==
    [][\A p \in Procs :
        /\ pc[p] = "backup" => pc'[p] \in {"backup", "commit"}
        /\ AfterBackups(p)' =>
              (BackedUp(p)' = EnabledNames' /\ backup_failures'[p] = FailedBackups(p)')
        /\ (Finished(p)' /\ Attempted(p, "backup")' /\ format_ok(config.sync.commit_message_template)) =>
              StepsAfterBackups(p)'
      ]_vars

\* C17: the last-sync timestamp file is rewritten in every non-dry-run sync
\* that returns True (including a sync with no enabled utilities and a sync
\* with auto-commit off), and is never written by a dry-run sync or by a
\* sync that returns False.
C17_TimestampIffSyncSucceeded ==
    \A p \in Procs :
        Finished(p) =>
            /\ Attempted(p, "update_last_sync_time") <=> (~dry_run[p] /\ result[p] = "True")
            /\ last_sync = (IF Attempted(p, "update_last_sync_time")
                               /\ OpsOf(p, "update_last_sync_time")[1].ok
                            THEN <<now>> ELSE <<0>>)

\* the commit of invocation p succeeded and its push failed
PushFailedAfterCommit(p) ==
    /\ Attempted(p, "commit_changes") /\ OpsOf(p, "commit_changes")[1].ok
    /\ Attempted(p, "push_changes") /\ ~OpsOf(p, "push_changes")[1].ok
\* what invocation p did from its push_changes call on
FromPush(p) ==
    LET t == trace[p]
        i == CHOOSE k \in 1..Len(t) : t[k].op = "push_changes"
    IN  SubSeq(t, i, Len(t))

\* C18: when the commit succeeds and the push fails, the sync still returns
\* True, the last-sync timestamp is updated (update_last_sync_time is the
\* next thing called, and the file holds the time of the call unless the
\* write itself fails), and the local commit is kept (no reset or rollback
\* command is issued).
C18_FailedPushKeepsCommitAndSucceeds ==
    \A p \in Procs :
        (Finished(p) /\ PushFailedAfterCommit(p)) =>
            /\ result[p] = "True"
            /\ Len(FromPush(p)) = 3
            /\ SubSeq(FromPush(p), 1, 2) =
                  <<Op("push_changes", "", FALSE), Cmd("push origin", FALSE)>>
            /\ FromPush(p)[3].op = "update_last_sync_time"
            /\ FromPush(p)[3].ok => last_sync = <<now>>
            /\ FilesOf(git.committed) = FilesOf(backups)

C18_Witness ==
    /\ Finished(1) /\ PushFailedAfterCommit(1)
    /\ Issued(trace[1], "commit")
    /\ git.pushed # git.committed
    /\ last_sync = <<now>>

\* the Commit step in which commit_changes is called, and the commands of
\* the call
CommitStep(p) ==
    /\ pc[p] = "commit" /\ pc'[p] # "commit"
    /\ config.sync.auto_commit /\ ~dry_run[p]
    /\ format_ok(config.sync.commit_message_template)
CommitCmds(p) ==
    LET t == trace[p]
        first == CHOOSE i \in 1..Len(t) : t[i].op = "commit_changes"
    IN  SelectSeq(SubSeq(t, first + 1, Len(t)), LAMBDA o : o.op = "git")
CommitRet(p) == OpsOf(p, "commit_changes")[1].ok

\* C19: commit_changes stages everything (git add . is its first command),
\* and when git status --porcelain reports no changes it returns True
\* without creating a commit; otherwise it creates exactly one commit and
\* returns True iff that commit succeeds.
C19_CommitOnlyWhenChanged ==
    [][\A p \in Procs : CommitStep(p) =>
        LET cmds == CommitCmds(p)'
            returned == CommitRet(p)'
            commits == SelectSeq(cmds, LAMBDA o : o.arg = "commit")
            changed == FilesOf(backups) # FilesOf(git.committed)
        IN  /\ cmds[1].arg = "add ."
            /\ cmds[1].ok => FilesOf(git'.index) = FilesOf(backups)
            /\ (cmds[1].ok /\ Len(cmds) > 1 /\ cmds[2].ok) =>
                  /\ cmds[2].arg = "status"
                  /\ IF changed
                     THEN /\ Len(commits) = 1 /\ cmds[3] = commits[1]
                          /\ returned = commits[1].ok
                          /\ FilesOf(git'.committed) =
                                (IF returned THEN FilesOf(backups) ELSE FilesOf(git.committed))
                     ELSE /\ commits = <<>> /\ returned
                          /\ git'.committed = git.committed
      ]_vars

C19_Witness ==
    /\ pc[1] = "push"
    /\ Issued(trace[1], "commit") /\ CommitRet(1)
    /\ FilesOf(git.committed) = FilesOf(backups)
    /\ git.pushed # git.committed

C19_WitnessNoChange ==
    /\ pc[1] = "push"
    /\ ~Issued(trace[1], "commit") /\ CommitRet(1)

\* the action the priority order asks for: already on the branch, else the
\* existing local branch, else the existing remote branch, else a new one
ResolutionByPriority(repo, branch) ==
    IF repo.born /\ repo.current = branch THEN "on branch"
    ELSE IF branch \in repo.locals THEN "local"
    ELSE IF branch \in repo.remotes THEN "remote"
    ELSE "new"
Checkouts(cmds) == SelectSeq(cmds, LAMBDA c : c.arg # "set-upstream-to")

\* C20: create_new_repo and connect_existing_repo resolve the branch by
\* exactly one of four actions chosen in this priority: already on the
\* branch (no checkout), else check out the existing local branch, else
\* check out the existing remote branch with tracking, else create a new
\* local branch; whenever either returns True the checked-out branch is the
\* requested branch.  (The choice is looked at when git branch -r has
\* listed the remote branches.)
C20_BranchResolvedByPriority ==
    setup.done =>
        /\ setup.env.branch_r_ok =>
              setup.action = ResolutionByPriority(setup.before, setup.branch)
        /\ setup.action = "on branch" => Checkouts(setup.cmds) = <<>>
        /\ setup.action = "local" =>
              \A i \in 1..Len(Checkouts(setup.cmds)) : Checkouts(setup.cmds)[i].arg = "checkout"
        /\ (setup.action = "remote" /\ setup.ret) => setup.branch \in setup.repo.upstream
        /\ setup.action = "new" =>
              \A i \in 1..Len(Checkouts(setup.cmds)) : Checkouts(setup.cmds)[i].arg = "checkout -b"
        /\ setup.ret => setup.repo.current = setup.branch

\* every command of the call worked, the fetch and the final push aside
OnlyFetchAndPushMayFail(e) ==
    /\ e.init_ok /\ e.remote_add_ok /\ e.write_ok /\ e.add_ok /\ e.commit_ok
    /\ e.br.branch_r_ok /\ e.br.checkout_ok /\ e.br.retry_ok

\* C21: first-time initialization on an empty local state succeeds
\* (create_new_repo returns True, origin is the URL, backups/, config/,
\* logs/ and the README are created) even when the initial fetch fails and
\* even when the final push --set-upstream fails; it ends on the requested
\* branch, tracking origin/<branch> if the fetch has shown that branch on
\* the remote, and on a fresh local branch otherwise.
C21_FirstInitSucceeds ==
    (setup.done /\ setup.fn = "create_new_repo" /\ OnlyFetchAndPushMayFail(setup.env)) =>
        /\ setup.ret
        /\ setup.remote_set
        /\ setup.made = {"backups", "config", "logs", "README.md"}
        /\ setup.repo.current = setup.branch
        /\ setup.branch \in setup.seen => setup.branch \in setup.repo.upstream
        /\ setup.branch \notin setup.seen => setup.action \in {"on branch", "new"}

\* a process that wrote the lock file was killed before its cleanup
DiedHoldingLock == \E p \in Procs : pc[p] = "dead" /\ created[p]

\* C22: if a sync process dies after creating the lock file and before its
\* cleanup, the lock file persists (no step of the sync path removes it,
\* however long it has been there) and every later sync_once returns False
\* without syncing.
C22_StaleLockPersists ==
    [][(DiedHoldingLock /\ lock) =>
          /\ lock'
          /\ \A q \in Procs :
                (pc[q] = "idle" /\ Moved(q)) =>
                    (pc'[q] = "done" /\ result'[q] = "False" /\ trace'[q] = <<>>)]_vars

\* a copy without the mark that tells a logged intention from an action
Copy(op, arg) == [op |-> op, arg |-> arg]
\* the per-path copies of invocation p, in order
Copies(p) ==
    LET ops == SelectSeq(trace[p], LAMBDA o : o.op \in {"copy_dir", "copy_file"})
    IN  [i \in 1..Len(ops) |-> Copy(ops[i].op, ops[i].arg)]
\* the per-path copy intentions a dry-run sync logs for this configuration
\* and this home tree
DryRunCopies ==
    LET enabled == get_enabled_utilities(config)
        e == [rsync |-> TRUE, rsync_ok |-> TRUE, mkdir_ok |-> TRUE]
        logged[i \in 0..Len(enabled)] ==
            IF i = 0 THEN <<>>
            ELSE LET log == backup_step(enabled[i], TRUE, e, home, EmptyFS).log
                 IN  logged[i - 1] \o
                     [k \in 1..Len(log) |->
                         Copy(log[k].op, <<log[k].utility, log[k].src>>)]
    IN  logged[Len(enabled)]

\* C23: for the same configuration and the same initial filesystem state,
\* the sequence of per-path copy intentions a dry-run sync logs (which
\* utilities, which source paths, in which order) is the sequence of
\* per-path copy actions a sync that is no dry run performs.
C23_DryRunLogsWhatRealRunCopies ==
    \A p \in Procs : Finished(p) => Copies(p) = DryRunCopies

\* C24: while one process is inside perform_sync (lock held), no step of
\* another command (restore, setup --fresh) modifies the repository working
\* tree or removes the lock file.
C24_OtherCommandsRespectSync ==
    [][((\E p \in Procs : InPerformSync(p)) /\ lock /\ \A p \in Procs : ~Moved(p)) =>
          (lock' /\ backups' = backups /\ git' = git)]_vars

\* C25: whenever pull_changes has stashed uncommitted changes, it attempts
\* git stash pop before it returns, on every path: also when the fetch
\* fails, when the pull fails without a conflict and when the merge
\* fallback fails.
C25_PopAttemptedAfterEveryStash ==
    [][\A p \in Procs : PullStep(p) =>
        LET cmds == PullCmds(p)'
            stashed == /\ Issued(cmds, "stash push")
                       /\ cmds[Position(cmds, "stash push")].ok
                       /\ stash_push(backups, git).saved
        IN  stashed => Issued(cmds, "stash pop")
      ]_vars

\* the commit_changes call of invocation p returned False
CommitFailed(p) == Attempted(p, "commit_changes") /\ ~CommitRet(p)

\* C26: with auto-commit on and not a dry run, a failed commit makes
\* perform_sync return False with no push attempted and no last-sync
\* timestamp update, while the files already copied into backups/ stay in
\* the working tree; a push is attempted only after a commit_changes call
\* that returned True.
C26_FailedCommitEndsSync ==
    [][\A p \in Procs :
        /\ (CommitStep(p) /\ CommitFailed(p)') =>
              /\ pc'[p] = "finally" /\ ret'[p] = "False"
              /\ backups' = backups
        /\ (CommitFailed(p) /\ Moved(p)) =>
              /\ pc'[p] = "done" /\ result'[p] = "False"
              /\ backups' = backups
        /\ CommitFailed(p)' =>
              /\ ~Attempted(p, "push_changes")'
              /\ ~Attempted(p, "update_last_sync_time")'
              /\ last_sync' = <<0>>
        /\ Attempted(p, "push_changes")' =>
              (Attempted(p, "commit_changes")' /\ CommitRet(p)')
      ]_vars

C26_Witness ==
    /\ Finished(1) /\ result[1] = "False"
    /\ CommitFailed(1) /\ Issued(trace[1], "commit")
    /\ BackedUp(1) = EnabledNames
    /\ <<"git", "g">> \in DOMAIN backups
    /\ FilesOf(git.committed) # FilesOf(backups)

\* the resolution went a way it only goes when it takes the remote branch
\* to exist: the checkout from origin/<branch>, or set-upstream-to after a
\* test of remote_branch_exists (line 799 issues it without the test)
TreatedAsOnRemote ==
    \/ setup.action = "remote"
    \/ /\ Issued(setup.cmds, "set-upstream-to")
       /\ ~(setup.fn = "connect_existing_repo" /\ setup.action = "on branch")

\* C27: during branch resolution the remote branch is treated as existing,
\* and upstream tracking to origin/<branch> is set, only when the remote has
\* a branch named exactly <branch>; a remote branch whose name merely
\* contains <branch> does not count.
C27_RemoteBranchMatchedExactly ==
    (setup.done /\ setup.fn \in {"create_new_repo", "connect_existing_repo"}) =>
        /\ TreatedAsOnRemote => setup.branch \in setup.before.remotes
        /\ setup.branch \in setup.repo.upstream => setup.branch \in setup.before.remotes

\* C28: if the lock file cannot be created, sync_once does not run
\* perform_sync: a process is inside perform_sync only while the lock file
\* it created exists.
C28_SyncOnlyUnderOwnLock ==
    \A p \in Procs : InPerformSync(p) => (created[p] /\ lock)

\* C29: run_setup_wizard skips a completed step only after the user agreed
\* to resume; when the user declines, the saved progress is cleared and all
\* four steps run; the progress file is removed when the wizard completes.
StepsOfWizard == {WizardSteps[i] : i \in DOMAIN WizardSteps}
DeclinedRunsAll ==
    (setup.asked /\ ~setup.resume) =>
        /\ setup.skipped = {}
        /\ setup.io_ok => setup.file \subseteq setup.ran
        /\ (setup.pc = "done" /\ setup.ret = "True") => setup.ran = StepsOfWizard
CompletedRemovesProgress ==
    (setup.pc = "done" /\ setup.ret = "True" /\ setup.io_ok) => setup.file = {}
C29_SkipsOnlyAfterResume ==
    /\ setup.skipped # {} => (setup.asked /\ setup.resume)
    /\ DeclinedRunsAll
    /\ CompletedRemovesProgress

\* C30: `config --frequency N` sets sync.frequency to N and saves the
\* configuration for every integer N, N = 0 included, and neither applies
\* another flag nor opens the interactive menu.  (Stated for a loaded
\* configuration whose sync section is an object and a save that succeeds.)
FrequencyGiven ==
    /\ loaded.done
    /\ loaded.command = "config"
    /\ loaded.args.frequency # <<>>
    /\ loaded.config[<<"sync">>] = Obj
C30_FrequencyFlagSetsFrequency ==
    FrequencyGiven =>
        /\ loaded.branch = "frequency"
        /\ loaded.save_ok =>
              /\ config_file.kind = "object"
              /\ <<"sync", "frequency">> \in DOMAIN config_file.tree
              /\ config_file.tree[<<"sync", "frequency">>] = loaded.args.frequency[1]
              /\ \A q \in DOMAIN loaded.config :
                    q # <<"sync", "frequency">> =>
                        (q \in DOMAIN config_file.tree /\ config_file.tree[q] = loaded.config[q])

====
